---- MODULE Spec2Model ----
(***************************************************************************)
(* A model of the log comparison core of rag-qa:                           *)
(*   src/src/logComparator.js   field exclusion filter and comparator      *)
(*   src/src/rag/ragAnalyzer.js error scorer and log set analyzer          *)
(*                                                                         *)
(* JavaScript values are tagged records:                                   *)
(*   [t |-> "undef"], [t |-> "null"], [t |-> "num", n], [t |-> "str", s],  *)
(*   [t |-> "obj", f]  f = the entries <<[k, v], ...>> in insertion order  *)
(*   [t |-> "arr", e]  e = the elements                                    *)
(*   [t |-> "throw"]   stands for an exception that left the callee        *)
(* A field path such as "log.items[0].level" is modelled by the list of    *)
(* its dot-separated segments, each a name with its bracketed indices:     *)
(*   <<[name |-> "log", idx |-> <<>>], [name |-> "items", idx |-> <<0>>],   *)
(*     [name |-> "level", idx |-> <<>>]>>                                   *)
(* so that split('.') is the list itself and joining with '.' is \o.       *)
(* Object keys and exclusion names are strings of the same kind.           *)
(***************************************************************************)
EXTENDS Integers, Sequences, FiniteSets, TLC

VARIABLES
    blueLogs,       \* compareWorkflowLogs: argument blueLogs
    greenLogs,      \* compareWorkflowLogs: argument greenLogs
    options,        \* compareWorkflowLogs: argument options
    defaultConfig,  \* what loadDefaultIgnoreFields() returns
    report,         \* compareWorkflowLogs: local report
    ci,             \* compareWorkflowLogs: loop variable i
    fobj,           \* removeIgnoredFields: argument obj
    fcfg,           \* removeIgnoredFields: arguments ignoreFields, ignorePatterns
    fout,           \* removeIgnoredFields: the value returned
    slog,           \* analyzeLogForErrors: argument log
    sres,           \* analyzeLogForErrors: the analysis returned
    requests,       \* the record each request works on
    calls,          \* the calls that have returned, oldest first
    lastIndex,      \* the lastIndex of every regular expression of the catalog
    heap,           \* the objects and arrays that exist, by address
    heapIn,         \* the heap when the call was made
    frameCall,      \* the call made on values of the heap
    frameOut,       \* what the call returned
    ecall,          \* extractErrorEntries or summarizeLogs: the call and its argument logs
    eout,           \* what that call returned
    scanLogs,       \* the records extractKeyValuePairs scans
    scanPos,        \* the matches of the scan handled so far
    scanMap,        \* kvMap of the running scan
    scanOut,        \* the map the scan returned
    vcall,          \* the call of compareLogValues or isNullOrErrorValue and its arguments
    vout,           \* what that call returned
    ragIn,          \* the arguments of performRagAnalysis
    ragResult,      \* the result object of the run
    ragLocal,       \* repoContext and relevantFiles of the run
    ragCalls,       \* the calls the run has made, with their outcomes
    ragSettled,     \* how the promise of the run settled
    clock,          \* Date.now()
    cacheFile,      \* the parsed content of the cache file, Undef without a file
    disk,           \* the state of the repositories on disk
    now,            \* Date.now() for gatherRepositoryContext
    gcall,          \* the running or last call of gatherRepositoryContext
    gops,           \* what that call did: read, scan, write
    gout,           \* what that call returned
    gcount,         \* the calls made
    stream,         \* the lines of the event stream not yet read
    received,       \* the events handled
    finalResult,    \* finalResult of the submit handler
    view,           \* what the page shows
    pc              \* position of the running call

cmpVars == <<blueLogs, greenLogs, options, defaultConfig, report, ci>>
filterVars == <<fobj, fcfg, fout>>
scoreVars == <<slog, sres>>
sessionVars == <<requests, calls, lastIndex>>
frameVars == <<heap, heapIn, frameCall, frameOut>>
errorVars == <<ecall, eout>>
scanVars == <<scanLogs, scanPos, scanMap, scanOut>>
valueVars == <<vcall, vout>>
ragVars == <<ragIn, ragResult, ragLocal, ragCalls, ragSettled, clock>>
gatherVars == <<cacheFile, disk, now, gcall, gops, gout, gcount>>
streamVars == <<stream, received, finalResult, view>>
vars == <<cmpVars, filterVars, scoreVars, sessionVars, frameVars, errorVars, scanVars, valueVars, ragVars, gatherVars, streamVars, pc>>

---------------------------------------------------------------------------
(* JavaScript values *)

Undef == [t |-> "undef"]
Null == [t |-> "null"]
Thrown == [t |-> "throw"]
Num(n) == [t |-> "num", n |-> n]
Str(s) == [t |-> "str", s |-> s]
Obj(f) == [t |-> "obj", f |-> f]
Arr(e) == [t |-> "arr", e |-> e]

Seg(name) == [name |-> name, idx |-> <<>>]
\* the string `name`
P(name) == <<Seg(name)>>
\* the string `a.b`
P2(a, b) == <<Seg(a), Seg(b)>>
\* one object entry key: value
KV(k, v) == [k |-> k, v |-> v]

\* typeof v === 'object' && v !== null
IsObjectLike(v) == v.t \in {"obj", "arr"}

\* !v
Falsy(v) ==
    \/ v.t \in {"undef", "null"}
    \/ v.t = "num" /\ v.n = 0
    \/ v.t = "str" /\ v.s = ""

\* xs[i] of a JavaScript array (0-based; undefined past the end)
At(xs, i) == IF i >= 0 /\ i < Len(xs) THEN xs[i + 1] ELSE Undef

Max2(a, b) == IF a >= b THEN a ELSE b
Min2(a, b) == IF a <= b THEN a ELSE b

\* list.includes(x)
Includes(list, x) == \E j \in 1..Len(list) : list[j] = x

---------------------------------------------------------------------------
(* Regular expressions of the exclusion patterns.  A pattern string is one *)
(* of: [kind |-> "invalid"] (new RegExp throws a SyntaxError, e.g. "(" ),  *)
(* [kind |-> "whole", str] (the anchored ^str$, str a string given by its  *)
(* segments) and [kind |-> "part", name] (the unanchored name, found       *)
(* anywhere in the tested string).                                         *)

BadRe == [kind |-> "invalid"]
WholeRe(str) == [kind |-> "whole", str |-> str]
PartRe(name) == [kind |-> "part", name |-> name]

\* hay.includes(needle), for the needles "time", "stamp", "id" and "e" of the
\* patterns below and the field names of the records below
HasSubstring(hay, needle) ==
    \/ hay = needle
    \/ hay = "timestamp" /\ needle \in {"time", "stamp", "e"}
    \/ hay = "uid" /\ needle = "id"
    \/ hay \in {"level", "items", "file"} /\ needle = "e"

\* new RegExp(pattern) throws
NewRegExpThrows(pattern) == pattern.kind = "invalid"

\* new RegExp(pattern).test(s), s a string given by its segments
RegexTest(pattern, s) ==
    IF pattern.kind = "whole"
    THEN s = pattern.str
    ELSE \E j \in 1..Len(s) : HasSubstring(s[j].name, pattern.name)

---------------------------------------------------------------------------
(* shouldIgnoreField, logComparator.js:35-60 *)

\* fieldPath.split('.')
pathParts(fieldPath) == [j \in 1..Len(fieldPath) |-> <<fieldPath[j]>>]

TryPatternNoCatch(pattern, fieldPath) ==
    IF NewRegExpThrows(pattern) THEN "throw"
    ELSE IF \/ RegexTest(pattern, fieldPath)
            \/ \E j \in 1..Len(fieldPath) : RegexTest(pattern, pathParts(fieldPath)[j])
         THEN "hit" ELSE "miss"

\* the try/catch for one pattern (lines 49-56): "hit" = return true,
\* "miss" = go on with the next pattern, also after the catch;
\* "throw" = an exception leaves the try statement
TryPattern(pattern, fieldPath) ==
    IF NewRegExpThrows(pattern) THEN "miss"
    ELSE IF \/ RegexTest(pattern, fieldPath)
            \/ \E j \in 1..Len(fieldPath) : RegexTest(pattern, pathParts(fieldPath)[j])
         THEN "hit" ELSE "miss"

\* the for loop over ignorePatterns (lines 48-57) from pattern j on:
\* "yes" = return true, "no" = the loop ended, "throw" = an exception left it
RECURSIVE PatternLoop(_, _, _)
PatternLoop(fieldPath, ignorePatterns, j) ==
    IF j > Len(ignorePatterns) THEN "no"
    ELSE LET r == TryPattern(ignorePatterns[j], fieldPath)
         IN  CASE r = "hit" -> "yes"
               [] r = "throw" -> "throw"
               [] OTHER -> PatternLoop(fieldPath, ignorePatterns, j + 1)

shouldIgnoreFieldFullPathOnly(fieldPath, ignoreFields, ignorePatterns) ==
    IF Includes(ignoreFields, fieldPath) THEN "yes"
    ELSE PatternLoop(fieldPath, ignorePatterns, 1)

shouldIgnoreField(fieldPath, ignoreFields, ignorePatterns) ==
    IF Includes(ignoreFields, fieldPath) THEN "yes"
    ELSE IF \E j \in 1..Len(fieldPath) :
                Includes(ignoreFields, pathParts(fieldPath)[j]) THEN "yes"
    ELSE PatternLoop(fieldPath, ignorePatterns, 1)

---------------------------------------------------------------------------
(* removeIgnoredFields, logComparator.js:70-90 *)

\* `${parentPath}[${index}]`
IndexPath(parentPath, index) ==
    IF parentPath = <<>>
    THEN <<[name |-> "", idx |-> <<index>>]>>
    ELSE [parentPath EXCEPT ![Len(parentPath)].idx = Append(@, index)]

\* parentPath ? `${parentPath}.${key}` : key
KeyPath(parentPath, key) == IF parentPath # <<>> THEN parentPath \o key ELSE key

RECURSIVE removeIgnoredFields(_, _, _, _)
RECURSIVE FilterEntries(_, _, _, _, _)

\* the for loop over Object.entries(obj) (lines 82-88) from entry j on:
\* [threw, entries]: whether an exception left it, else the entries of result
FilterEntries(entries, j, ignoreFields, ignorePatterns, parentPath) ==
    IF j > Len(entries) THEN [threw |-> FALSE, entries |-> <<>>]
    ELSE LET fullPath == KeyPath(parentPath, entries[j].k)
             ign == shouldIgnoreField(fullPath, ignoreFields, ignorePatterns)
             sub == IF ign = "no"
                    THEN removeIgnoredFields(entries[j].v, ignoreFields,
                                             ignorePatterns, fullPath)
                    ELSE Undef
             rest == FilterEntries(entries, j + 1, ignoreFields, ignorePatterns,
                                   parentPath)
         IN  IF ign = "throw" \/ sub = Thrown \/ rest.threw
             THEN [threw |-> TRUE, entries |-> <<>>]
             ELSE IF ign = "yes" THEN rest
             ELSE [threw |-> FALSE,
                   entries |-> <<KV(entries[j].k, sub)>> \o rest.entries]

removeIgnoredFields(obj, ignoreFields, ignorePatterns, parentPath) ==
    IF ~IsObjectLike(obj) THEN obj
    ELSE IF obj.t = "arr"
    THEN LET items == [j \in 1..Len(obj.e) |->
                          removeIgnoredFields(obj.e[j], ignoreFields, ignorePatterns,
                                              IndexPath(parentPath, j - 1))]
         IN  IF \E j \in 1..Len(items) : items[j] = Thrown THEN Thrown
             ELSE Arr(items)
    ELSE LET result == FilterEntries(obj.f, 1, ignoreFields, ignorePatterns,
                                     parentPath)
         IN  IF result.threw THEN Thrown ELSE Obj(result.entries)

---------------------------------------------------------------------------
(* diff of the deep-diff package, called at logComparator.js:117.  A       *)
(* change is [kind, path, lhs, rhs, index, item]; a path is the list of    *)
(* keys and array indices from the root; index = -1 and item = NoItem      *)
(* stand for the absent properties.                                        *)

PKey(k) == [num |-> FALSE, key |-> k, ix |-> 0]
PIdx(i) == [num |-> TRUE, key |-> <<>>, ix |-> i]
NoItem == [kind |-> "", lhs |-> Undef, rhs |-> Undef]
DiffNew(path, rhs) ==
    [kind |-> "N", path |-> path, lhs |-> Undef, rhs |-> rhs,
     index |-> -1, item |-> NoItem]
DiffDeleted(path, lhs) ==
    [kind |-> "D", path |-> path, lhs |-> lhs, rhs |-> Undef,
     index |-> -1, item |-> NoItem]
DiffEdit(path, lhs, rhs) ==
    [kind |-> "E", path |-> path, lhs |-> lhs, rhs |-> rhs,
     index |-> -1, item |-> NoItem]
DiffArray(path, index, item) ==
    [kind |-> "A", path |-> path, lhs |-> Undef, rhs |-> Undef,
     index |-> index, item |-> item]

\* the position of key k among the entries, 0 when absent (keys.indexOf)
KeyIndex(entries, k) ==
    IF \E j \in 1..Len(entries) : entries[j].k = k
    THEN CHOOSE j \in 1..Len(entries) : entries[j].k = k
    ELSE 0

RECURSIVE deepDiff(_, _, _)
RECURSIVE DiffLhsKeys(_, _, _, _)
RECURSIVE DiffRhsKeys(_, _, _, _)
RECURSIVE DiffArrayTail(_, _, _, _)
RECURSIVE DiffArrayCommon(_, _, _, _)

\* for each key of lhs in order: the changes below it, or its deletion
DiffLhsKeys(le, re, j, path) ==
    IF j > Len(le) THEN <<>>
    ELSE LET k == le[j].k
             other == KeyIndex(re, k)
             here == IF other > 0
                     THEN deepDiff(le[j].v, re[other].v, Append(path, PKey(k)))
                     ELSE <<DiffDeleted(Append(path, PKey(k)), le[j].v)>>
         IN  here \o DiffLhsKeys(le, re, j + 1, path)

\* then for each key of rhs that lhs lacks, in order: its addition
DiffRhsKeys(le, re, j, path) ==
    IF j > Len(re) THEN <<>>
    ELSE LET k == re[j].k
             here == IF KeyIndex(le, k) = 0
                     THEN <<DiffNew(Append(path, PKey(k)), re[j].v)>>
                     ELSE <<>>
         IN  here \o DiffRhsKeys(le, re, j + 1, path)

\* the elements one array has past the end of the other, last one first
DiffArrayTail(la, ra, i, path) ==
    IF i < Min2(Len(la), Len(ra)) THEN <<>>
    ELSE LET item == IF Len(ra) > Len(la)
                     THEN [kind |-> "N", lhs |-> Undef, rhs |-> ra[i + 1]]
                     ELSE [kind |-> "D", lhs |-> la[i + 1], rhs |-> Undef]
         IN  <<DiffArray(path, i, item)>> \o DiffArrayTail(la, ra, i - 1, path)

\* the elements both arrays have, last one first
DiffArrayCommon(la, ra, i, path) ==
    IF i < 0 THEN <<>>
    ELSE deepDiff(la[i + 1], ra[i + 1], Append(path, PIdx(i)))
            \o DiffArrayCommon(la, ra, i - 1, path)

\* deepDiff for two values that are both present
deepDiff(lhs, rhs, path) ==
    IF lhs.t # rhs.t THEN <<DiffEdit(path, lhs, rhs)>>
    ELSE IF lhs.t = "arr"
    THEN DiffArrayTail(lhs.e, rhs.e, Max2(Len(lhs.e), Len(rhs.e)) - 1, path)
            \o DiffArrayCommon(lhs.e, rhs.e, Min2(Len(lhs.e), Len(rhs.e)) - 1, path)
    ELSE IF lhs.t = "obj"
    THEN DiffLhsKeys(lhs.f, rhs.f, 1, path) \o DiffRhsKeys(lhs.f, rhs.f, 1, path)
    ELSE IF lhs # rhs THEN <<DiffEdit(path, lhs, rhs)>>
    ELSE <<>>

\* diff(lhs, rhs) || []
diff(lhs, rhs) == deepDiff(lhs, rhs, <<>>)

---------------------------------------------------------------------------
(* pathToString, logComparator.js:97-103 *)

RECURSIVE PathJoin(_, _, _)
PathJoin(pathArray, i, acc) ==
    IF i > Len(pathArray) THEN acc
    ELSE LET p == pathArray[i]
         IN  PathJoin(pathArray, i + 1,
                      IF p.num THEN IndexPath(acc, p.ix)
                      ELSE IF i = 1 THEN p.key
                      ELSE acc \o p.key)

pathToString(pathArray) ==
    IF pathArray = <<>> THEN <<>> ELSE PathJoin(pathArray, 1, <<>>)

---------------------------------------------------------------------------
(* compareLogEntries, logComparator.js:113-130 *)

DiffEntrySwapsSides(d) ==
    [kind |-> d.kind, path |-> pathToString(d.path), blueValue |-> d.rhs,
     greenValue |-> d.lhs, index |-> d.index, item |-> d.item]

DiffEntry(d) ==
    [kind |-> d.kind, path |-> pathToString(d.path), blueValue |-> d.lhs,
     greenValue |-> d.rhs, index |-> d.index, item |-> d.item]

compareLogEntriesFiltersBlueOnly(blueLog, greenLog, ignoreFields, ignorePatterns) ==
    LET filteredBlue == removeIgnoredFields(blueLog, ignoreFields, ignorePatterns, <<>>)
        differences == diff(filteredBlue, greenLog)
    IN  IF filteredBlue = Thrown
        THEN [threw |-> TRUE, hasDifferences |-> FALSE, differences |-> <<>>]
        ELSE [threw |-> FALSE,
              hasDifferences |-> Len(differences) > 0,
              differences |-> [j \in 1..Len(differences) |->
                                  DiffEntry(differences[j])]]

compareLogEntriesUnfiltered(blueLog, greenLog, ignoreFields, ignorePatterns) ==
    LET differences == diff(blueLog, greenLog)
    IN  [threw |-> FALSE,
         hasDifferences |-> Len(differences) > 0,
         differences |-> [j \in 1..Len(differences) |-> DiffEntry(differences[j])]]

compareLogEntries(blueLog, greenLog, ignoreFields, ignorePatterns) ==
    LET filteredBlue == removeIgnoredFields(blueLog, ignoreFields, ignorePatterns, <<>>)
        filteredGreen == removeIgnoredFields(greenLog, ignoreFields, ignorePatterns, <<>>)
        differences == diff(filteredBlue, filteredGreen)
    IN  IF filteredBlue = Thrown \/ filteredGreen = Thrown
        THEN [threw |-> TRUE, hasDifferences |-> FALSE, differences |-> <<>>]
        ELSE [threw |-> FALSE,
              hasDifferences |-> Len(differences) > 0,
              differences |-> [j \in 1..Len(differences) |->
                                  DiffEntry(differences[j])]]

---------------------------------------------------------------------------
(* The inputs of compareWorkflowLogs *)

\* the longest sequence of the short records
MaxLen == 3

SeqsUpTo(S, n) == UNION {[1..m -> S] : m \in 0..n}

\* {timestamp: "t1", v: 1} and its variants
RecT1V1 == Obj(<<KV(P("timestamp"), Str("t1")), KV(P("v"), Num(1))>>)
RecT2V1 == Obj(<<KV(P("timestamp"), Str("t2")), KV(P("v"), Num(1))>>)
RecT1V2 == Obj(<<KV(P("timestamp"), Str("t1")), KV(P("v"), Num(2))>>)

ShortRecords == {RecT1V1, RecT2V1, RecT1V2}

\* records with other keys, key orders, nested mappings and arrays
NestedRecords ==
    { Obj(<<KV(P("v"), Num(1)), KV(P("timestamp"), Str("t1"))>>),
      Obj(<<KV(P("v"), Num(1))>>),
      Obj(<<KV(P("a"), Num(1))>>),
      Obj(<<KV(P("a"), Num(2))>>),
      Obj(<<KV(P("a"), Str("1")), KV(P("uid"), Num(7))>>),
      Obj(<<KV(P("a"), Str("1")), KV(P("uid"), Num(8))>>),
      Obj(<<KV(P("a"), Null), KV(P("uid"), Num(8))>>),
      Obj(<<KV(P("log"), Obj(<<KV(P("level"), Str("info"))>>)), KV(P("v"), Num(1))>>),
      Obj(<<KV(P("log"), Obj(<<KV(P("level"), Str("warn"))>>)), KV(P("v"), Num(1))>>),
      Obj(<<KV(P2("log", "level"), Str("info")), KV(P("v"), Num(1))>>),
      Obj(<<KV(P("level"), Str("warn")), KV(P("v"), Num(1))>>),
      Obj(<<KV(P("items"), Arr(<<Obj(<<KV(P("level"), Num(1)), KV(P("v"), Num(1))>>)>>)),
            KV(P("v"), Num(1))>>),
      Obj(<<KV(P("items"), Arr(<<Obj(<<KV(P("level"), Num(2)), KV(P("v"), Num(1))>>),
                                 Obj(<<KV(P("v"), Num(3))>>)>>)),
            KV(P("v"), Num(1))>>) }

NoConfig == [ignoreFields |-> <<>>, ignorePatterns |-> <<>>]

\* what the default-ignore-fields.json file may hold
DefaultConfigs ==
    { NoConfig,
      [ignoreFields |-> <<P("timestamp")>>, ignorePatterns |-> <<>>] }

\* the options of a call
OptionSets ==
    { NoConfig,
      [ignoreFields |-> <<P("timestamp")>>, ignorePatterns |-> <<>>],
      [ignoreFields |-> <<P("level"), P("a")>>, ignorePatterns |-> <<>>],
      [ignoreFields |-> <<P2("log", "level")>>, ignorePatterns |-> <<>>],
      [ignoreFields |-> <<<<[name |-> "items", idx |-> <<0>>]>>>>,
       ignorePatterns |-> <<>>],
      [ignoreFields |-> <<>>, ignorePatterns |-> <<BadRe>>],
      [ignoreFields |-> <<>>, ignorePatterns |-> <<BadRe, WholeRe(P("level"))>>],
      [ignoreFields |-> <<>>,
       ignorePatterns |-> <<PartRe("stamp"), BadRe, PartRe("id")>>] }

\* the options tried with the longer sequences
ShortOptionSets ==
    { NoConfig,
      [ignoreFields |-> <<P("timestamp")>>, ignorePatterns |-> <<>>],
      [ignoreFields |-> <<>>,
       ignorePatterns |-> <<PartRe("stamp"), BadRe, PartRe("id")>>] }

---------------------------------------------------------------------------
(* compareWorkflowLogs, logComparator.js:142-201 *)

EmptyReport ==
    [summary |-> [blueLogCount |-> 0, greenLogCount |-> 0, matchedCount |-> 0,
                  mismatchedCount |-> 0, blueOnlyCount |-> 0, greenOnlyCount |-> 0],
     countMismatch |-> FALSE,
     sequenceDifferences |-> <<>>,
     logDifferences |-> <<>>,
     blueOnlyLogs |-> <<>>,
     greenOnlyLogs |-> <<>>,
     ignoredFields |-> <<>>,
     ignoredPatterns |-> <<>>]

\* no call of removeIgnoredFields from outside is under way
FilterIdle == fobj = Undef /\ fcfg = NoConfig /\ fout = Undef

\* no call of analyzeLogForErrors is under way
ScoreIdle == slog = Undef /\ sres = Undef

\* no request is being served
SessionIdle == requests = <<>> /\ calls = <<>> /\ lastIndex = Undef

StreamIdle == stream = <<>> /\ received = <<>> /\ finalResult = Undef /\ view = Undef

GatherIdle == cacheFile = Undef /\ disk = 0 /\ now = 0 /\ gcall = Undef /\ gops = <<>> /\ gout = Undef /\ gcount = 0

RagIdle == ragIn = Undef /\ ragResult = Undef /\ ragLocal = Undef /\ ragCalls = <<>> /\ ragSettled = Undef /\ clock = 0

ValuesIdle == vcall = Undef /\ vout = Undef

ScanIdle == scanLogs = <<>> /\ scanPos = 0 /\ scanMap = <<>> /\ scanOut = Undef

ErrorsIdle == ecall = Undef /\ eout = Undef

FrameIdle == heap = <<>> /\ heapIn = <<>> /\ frameCall = Undef /\ frameOut = Undef

InitCompare ==
    /\ \/ /\ blueLogs \in SeqsUpTo(ShortRecords, MaxLen)
          /\ greenLogs \in SeqsUpTo(ShortRecords, MaxLen)
          /\ options \in ShortOptionSets
       \/ /\ blueLogs \in SeqsUpTo(NestedRecords, 1)
          /\ greenLogs \in SeqsUpTo(NestedRecords \cup ShortRecords, 1)
          /\ options \in OptionSets
    /\ defaultConfig \in DefaultConfigs
    /\ report = EmptyReport
    /\ ci = 0
    /\ FilterIdle
    /\ ScoreIdle
    /\ SessionIdle
    /\ FrameIdle
    /\ ErrorsIdle
    /\ ScanIdle
    /\ ValuesIdle
    /\ RagIdle
    /\ GatherIdle
    /\ StreamIdle
    /\ pc = "call"

\* lines 143-167: the configuration and the empty report
CompareStart ==
    /\ pc = "call"
    /\ report' =
          [summary |-> [blueLogCount |-> Len(blueLogs),
                        greenLogCount |-> Len(greenLogs),
                        matchedCount |-> 0, mismatchedCount |-> 0,
                        blueOnlyCount |-> 0, greenOnlyCount |-> 0],
           countMismatch |-> Len(blueLogs) # Len(greenLogs),
           sequenceDifferences |-> <<>>,
           logDifferences |-> <<>>,
           blueOnlyLogs |-> <<>>,
           greenOnlyLogs |-> <<>>,
           ignoredFields |-> defaultConfig.ignoreFields \o options.ignoreFields,
           ignoredPatterns |-> defaultConfig.ignorePatterns \o options.ignorePatterns]
    /\ ci' = 0
    /\ pc' = "loop"
    /\ UNCHANGED <<blueLogs, greenLogs, options, defaultConfig, filterVars, scoreVars, sessionVars, frameVars, errorVars, scanVars, valueVars, ragVars, gatherVars, streamVars>>

maxLength == Max2(Len(blueLogs), Len(greenLogs))

\* a fuzzy alignment: the longer sequence's surplus is skipped at the front
PairAtRealigned(i) ==
    [blueLog |-> At(blueLogs, IF Len(blueLogs) > Len(greenLogs) /\ i < Len(greenLogs)
                              THEN i + (Len(blueLogs) - Len(greenLogs)) ELSE i),
     greenLog |-> At(greenLogs, IF Len(greenLogs) > Len(blueLogs) /\ i < Len(blueLogs)
                                THEN i + (Len(greenLogs) - Len(blueLogs)) ELSE i)]

\* lines 170-171
PairAt(i) == [blueLog |-> At(blueLogs, i), greenLog |-> At(greenLogs, i)]

\* lines 173-177
GreenOnlyBranch(i, greenLog) ==
    [report EXCEPT !.greenOnlyLogs = Append(@, [index |-> i, log |-> greenLog]),
                   !.summary.greenOnlyCount = @ + 1]

BlueOnlyBranchCountsGreen(i, blueLog) ==
    [report EXCEPT !.blueOnlyLogs = Append(@, [index |-> i, log |-> blueLog]),
                   !.summary.greenOnlyCount = @ + 1]

\* lines 179-183
BlueOnlyBranch(i, blueLog) ==
    [report EXCEPT !.blueOnlyLogs = Append(@, [index |-> i, log |-> blueLog]),
                   !.summary.blueOnlyCount = @ + 1]

PairedBranchCountsTwice(i, blueLog, greenLog, comparison) ==
    IF comparison.hasDifferences
    THEN [report EXCEPT
            !.summary.mismatchedCount = @ + 1,
            !.summary.matchedCount = @ + 1,
            !.logDifferences = Append(@,
                [index |-> i,
                 blueLog |-> removeIgnoredFields(blueLog, report.ignoredFields,
                                                 report.ignoredPatterns, <<>>),
                 greenLog |-> removeIgnoredFields(greenLog, report.ignoredFields,
                                                  report.ignoredPatterns, <<>>),
                 differences |-> comparison.differences])]
    ELSE [report EXCEPT !.summary.matchedCount = @ + 1]

PairedBranchKeepsRawRecords(i, blueLog, greenLog, comparison) ==
    IF comparison.hasDifferences
    THEN [report EXCEPT
            !.summary.mismatchedCount = @ + 1,
            !.logDifferences = Append(@,
                [index |-> i, blueLog |-> blueLog, greenLog |-> greenLog,
                 differences |-> comparison.differences])]
    ELSE [report EXCEPT !.summary.matchedCount = @ + 1]

\* lines 187-197
PairedBranch(i, blueLog, greenLog, comparison) ==
    IF comparison.hasDifferences
    THEN [report EXCEPT
            !.summary.mismatchedCount = @ + 1,
            !.logDifferences = Append(@,
                [index |-> i,
                 blueLog |-> removeIgnoredFields(blueLog, report.ignoredFields,
                                                 report.ignoredPatterns, <<>>),
                 greenLog |-> removeIgnoredFields(greenLog, report.ignoredFields,
                                                  report.ignoredPatterns, <<>>),
                 differences |-> comparison.differences])]
    ELSE [report EXCEPT !.summary.matchedCount = @ + 1]

\* one pass of the for loop, lines 169-198
CompareIterate ==
    /\ pc = "loop"
    /\ ci < maxLength
    /\ LET blueLog == PairAt(ci).blueLog
           greenLog == PairAt(ci).greenLog
           comparison == compareLogEntries(blueLog, greenLog, report.ignoredFields,
                                           report.ignoredPatterns)
       IN  IF Falsy(blueLog)
           THEN /\ report' = GreenOnlyBranch(ci, greenLog)
                /\ pc' = "loop"
           ELSE IF Falsy(greenLog)
           THEN /\ report' = BlueOnlyBranch(ci, blueLog)
                /\ pc' = "loop"
           ELSE IF comparison.threw
           THEN /\ report' = report
                /\ pc' = "raised"
           ELSE /\ report' = PairedBranch(ci, blueLog, greenLog, comparison)
                /\ pc' = "loop"
    /\ ci' = ci + 1
    /\ UNCHANGED <<blueLogs, greenLogs, options, defaultConfig, filterVars, scoreVars, sessionVars, frameVars, errorVars, scanVars, valueVars, ragVars, gatherVars, streamVars>>

\* line 200
CompareReturn ==
    /\ pc = "loop"
    /\ ci >= maxLength
    /\ pc' = "done"
    /\ UNCHANGED <<cmpVars, filterVars, scoreVars, sessionVars, frameVars, errorVars, scanVars, valueVars, ragVars, gatherVars, streamVars>>

NextCompare == CompareStart \/ CompareIterate \/ CompareReturn

SpecCompare == InitCompare /\ [][NextCompare]_vars

---------------------------------------------------------------------------
(* Properties of compareWorkflowLogs *)

RECURSIVE FieldIdentical(_, _)
\* a and b have the same fields with the same values, at every depth
FieldIdentical(a, b) ==
    IF a.t # b.t THEN FALSE
    ELSE IF a.t = "obj"
    THEN /\ {a.f[j].k : j \in 1..Len(a.f)} = {b.f[j].k : j \in 1..Len(b.f)}
         /\ \A j \in 1..Len(a.f) :
               FieldIdentical(a.f[j].v, b.f[KeyIndex(b.f, a.f[j].k)].v)
    ELSE IF a.t = "arr"
    THEN /\ Len(a.e) = Len(b.e)
         /\ \A j \in 1..Len(a.e) : FieldIdentical(a.e[j], b.e[j])
    ELSE a = b

Keys(o) == {o.f[j].k : j \in 1..Len(o.f)}
Get(o, k) == o.f[KeyIndex(o.f, k)].v

\* the record without its top-level field k
DropKey(o, k) ==
    LET Other(e) == e.k # k IN Obj(SelectSeq(o.f, Other))

\* the record as the running call filters it
Filtered(rec) ==
    removeIgnoredFields(rec, report.ignoredFields, report.ignoredPatterns, <<>>)

\* the indices at which both sequences have a record
Paired == 0..(Min2(Len(blueLogs), Len(greenLogs)) - 1)

\* the indices the report lists as mismatched
DiffIndices == {report.logDifferences[j].index : j \in 1..Len(report.logDifferences)}

\* the differences the report lists for index i, <<>> when it lists none
DifferencesAt(i) ==
    IF i \in DiffIndices
    THEN (CHOOSE d \in {report.logDifferences[j] : j \in 1..Len(report.logDifferences)} :
             d.index = i).differences
    ELSE <<>>

Running == pc \in {"loop", "done"}

\* C1: in the returned report matchedCount + mismatchedCount + max(0, len(blue) -
\* len(green)) + max(0, len(green) - len(blue)) = max(len(blue), len(green)), and
\* at every point of the loop each index already visited is counted in exactly
\* one of matched, mismatched, blue-only, green-only.
C1_CountsCoverEveryIndex ==
    /\ Running =>
          report.summary.matchedCount + report.summary.mismatchedCount
            + report.summary.blueOnlyCount + report.summary.greenOnlyCount = ci
    /\ pc = "done" =>
          report.summary.matchedCount + report.summary.mismatchedCount
            + Max2(0, Len(blueLogs) - Len(greenLogs))
            + Max2(0, Len(greenLogs) - Len(blueLogs))
          = Max2(Len(blueLogs), Len(greenLogs))

C1_Witness ==
    /\ pc = "done"
    /\ Len(blueLogs) = 3 /\ Len(greenLogs) = 2
    /\ report.summary.matchedCount = 1
    /\ report.summary.mismatchedCount = 1

\* C2: in the returned report blueOnlyCount = max(0, len(blue) - len(green)) and
\* greenOnlyCount = max(0, len(green) - len(blue)); at most one of them is
\* non-zero; every one-sided entry has an index >= min(len(blue), len(green));
\* blue of 3 and green of 2 with identical entries 0-1 give blueOnlyCount = 1 at
\* index 2, matchedCount = 2 and mismatchedCount = 0.
C2_OneSidedCounts ==
    pc = "done" =>
       /\ report.summary.blueOnlyCount = Max2(0, Len(blueLogs) - Len(greenLogs))
       /\ report.summary.greenOnlyCount = Max2(0, Len(greenLogs) - Len(blueLogs))
       /\ report.summary.blueOnlyCount = 0 \/ report.summary.greenOnlyCount = 0
       /\ Len(report.blueOnlyLogs) = report.summary.blueOnlyCount
       /\ Len(report.greenOnlyLogs) = report.summary.greenOnlyCount
       /\ \A j \in 1..Len(report.blueOnlyLogs) :
             report.blueOnlyLogs[j].index >= Min2(Len(blueLogs), Len(greenLogs))
       /\ \A j \in 1..Len(report.greenOnlyLogs) :
             report.greenOnlyLogs[j].index >= Min2(Len(blueLogs), Len(greenLogs))
       /\ (/\ Len(blueLogs) = 3 /\ Len(greenLogs) = 2
           /\ blueLogs[1] = greenLogs[1] /\ blueLogs[2] = greenLogs[2])
          => /\ report.summary.blueOnlyCount = 1
             /\ report.blueOnlyLogs = <<[index |-> 2, log |-> blueLogs[3]]>>
             /\ report.summary.matchedCount = 2
             /\ report.summary.mismatchedCount = 0

C2_Witness ==
    /\ pc = "done"
    /\ Len(blueLogs) = 3 /\ Len(greenLogs) = 2
    /\ blueLogs[1] = greenLogs[1] /\ blueLogs[2] = greenLogs[2]
    /\ report.summary.blueOnlyCount = 1

\* C3: for equal-length sequences whose records are field-identical at every
\* index the returned report has mismatchedCount = 0, blueOnlyCount = 0,
\* greenOnlyCount = 0 and matchedCount = the common length, under every
\* exclusion configuration.
C3_IdenticalSequencesMatch ==
    (/\ pc = "done"
     /\ Len(blueLogs) = Len(greenLogs)
     /\ \A j \in 1..Len(blueLogs) : FieldIdentical(blueLogs[j], greenLogs[j]))
    => /\ report.summary.mismatchedCount = 0
       /\ report.summary.blueOnlyCount = 0
       /\ report.summary.greenOnlyCount = 0
       /\ report.summary.matchedCount = Len(blueLogs)
       /\ report.logDifferences = <<>>

\* identical records under an exclusion list, and records that are identical
\* up to the order of their keys
C3_Witness ==
    /\ pc = "done"
    /\ Len(blueLogs) = Len(greenLogs)
    /\ \A j \in 1..Len(blueLogs) : FieldIdentical(blueLogs[j], greenLogs[j])
    /\ \/ Len(blueLogs) = 3 /\ report.ignoredFields # <<>>
       \/ Len(blueLogs) = 1 /\ blueLogs # greenLogs

\* green is blue with one extra record at the front
FrontInsertion == Len(greenLogs) = Len(blueLogs) + 1 /\ Tail(greenLogs) = blueLogs

DifferOnlyIn(b, g, k) ==
    /\ k \in Keys(b) /\ k \in Keys(g)
    /\ Get(b, k) # Get(g, k)
    /\ DropKey(b, k) = DropKey(g, k)

\* C5: no DiffEntry of the report has an excluded field name as its path, and
\* two records that differ only in the value of an excluded top-level field are
\* counted as matched (exclusion "timestamp", blue [{timestamp:"t1", v:1}],
\* green [{timestamp:"t2", v:1}]: no differences).
C5_ExcludedFieldNeverReported ==
    /\ \A j \in 1..Len(report.logDifferences) :
          \A k \in 1..Len(report.logDifferences[j].differences) :
             ~Includes(report.ignoredFields,
                       report.logDifferences[j].differences[k].path)
    /\ Running =>
          \A i \in Paired :
             (/\ i < ci
              /\ \E n \in 1..Len(report.ignoredFields) :
                    DifferOnlyIn(At(blueLogs, i), At(greenLogs, i),
                                 report.ignoredFields[n]))
             => i \notin DiffIndices
    /\ (/\ pc = "done"
        /\ blueLogs = <<RecT1V1>> /\ greenLogs = <<RecT2V1>>
        /\ Includes(report.ignoredFields, P("timestamp")))
       => /\ report.logDifferences = <<>>
          /\ report.summary.matchedCount = 1

C5_Witness ==
    /\ pc = "done"
    /\ blueLogs = <<RecT1V1>> /\ greenLogs = <<RecT2V1>>
    /\ report.ignoredFields = <<P("timestamp")>>
    /\ report.summary.matchedCount = 1

\* the patterns that new RegExp accepts, in their order
ValidPatterns(patterns) ==
    LET Valid(q) == ~NewRegExpThrows(q) IN SelectSeq(patterns, Valid)

\* C7: an unparseable pattern never makes shouldIgnoreField, removeIgnoredFields
\* or compareWorkflowLogs raise, and the result is the one obtained with the
\* pattern list without it: the valid patterns before and after it still apply.
C7_InvalidPatternSkipped ==
    /\ pc # "raised"
    /\ Running =>
          /\ \A rec \in {blueLogs[j] : j \in 1..Len(blueLogs)}
                        \cup {greenLogs[j] : j \in 1..Len(greenLogs)} :
                /\ Filtered(rec) # Thrown
                /\ Filtered(rec) =
                      removeIgnoredFields(rec, report.ignoredFields,
                                          ValidPatterns(report.ignoredPatterns), <<>>)
          /\ \A i \in Paired :
                i < ci =>
                   LET c == compareLogEntries(At(blueLogs, i), At(greenLogs, i),
                                              report.ignoredFields,
                                              ValidPatterns(report.ignoredPatterns))
                   IN  /\ ~c.threw
                       /\ c.hasDifferences <=> i \in DiffIndices
                       /\ DifferencesAt(i) = c.differences

\* patterns <<stamp, (, id>>: the records differ in timestamp only (excluded by
\* the pattern before the invalid one) or in uid only (by the one after it)
C7_Witness ==
    /\ pc = "done"
    /\ report.ignoredPatterns = <<PartRe("stamp"), BadRe, PartRe("id")>>
    /\ report.ignoredFields = <<>>
    /\ Len(blueLogs) = 1 /\ Len(greenLogs) = 1
    /\ P("uid") \in Keys(blueLogs[1]) /\ P("uid") \in Keys(greenLogs[1])
    /\ Get(blueLogs[1], P("uid")) # Get(greenLogs[1], P("uid"))
    /\ report.summary.matchedCount = 1

\* all values of the record are scalars
IsFlat(o) == o.t = "obj" /\ \A j \in 1..Len(o.f) : ~IsObjectLike(o.f[j].v)

\* the entries the claim lists for the flat records b (blue) and g (green)
FlatDifferences(b, g) ==
    {[kind |-> "N", path |-> k, blueValue |-> Undef, greenValue |-> Get(g, k),
      index |-> -1, item |-> NoItem] : k \in Keys(g) \ Keys(b)}
    \cup
    {[kind |-> "D", path |-> k, blueValue |-> Get(b, k), greenValue |-> Undef,
      index |-> -1, item |-> NoItem] : k \in Keys(b) \ Keys(g)}
    \cup
    {[kind |-> "E", path |-> k, blueValue |-> Get(b, k), greenValue |-> Get(g, k),
      index |-> -1, item |-> NoItem] :
        k \in {q \in Keys(b) \cap Keys(g) : Get(b, q) # Get(g, q)}}

\* C8: for a pair of records that are flat after filtering the report lists
\* exactly one Added (N) entry per key only green has, one Deleted (D) entry per
\* key only blue has, one Edited (E) entry with both values per common key whose
\* values differ, and nothing else; blue [{a:1}] against green [{a:2}] gives the
\* single entry E at path a, blueValue 1, greenValue 2, and mismatchedCount 1.
C8_FlatRecordDifferences ==
    /\ Running =>
          \A i \in Paired :
             (/\ i < ci
              /\ IsFlat(Filtered(At(blueLogs, i)))
              /\ IsFlat(Filtered(At(greenLogs, i))))
             => LET ds == DifferencesAt(i)
                    want == FlatDifferences(Filtered(At(blueLogs, i)),
                                            Filtered(At(greenLogs, i)))
                IN  /\ {ds[k] : k \in 1..Len(ds)} = want
                    /\ Len(ds) = Cardinality(want)
    /\ (/\ pc = "done"
        /\ blueLogs = <<Obj(<<KV(P("a"), Num(1))>>)>>
        /\ greenLogs = <<Obj(<<KV(P("a"), Num(2))>>)>>
        /\ report.ignoredFields = <<>> /\ report.ignoredPatterns = <<>>)
       => /\ report.summary.mismatchedCount = 1
          /\ Len(report.logDifferences) = 1
          /\ report.logDifferences[1].differences =
                <<[kind |-> "E", path |-> P("a"), blueValue |-> Num(1),
                   greenValue |-> Num(2), index |-> -1, item |-> NoItem]>>

C8_Witness ==
    /\ pc = "done"
    /\ blueLogs = <<Obj(<<KV(P("a"), Num(1))>>)>>
    /\ greenLogs = <<Obj(<<KV(P("a"), Num(2))>>)>>
    /\ report.ignoredFields = <<>> /\ report.ignoredPatterns = <<>>
    /\ report.summary.mismatchedCount = 1

---------------------------------------------------------------------------
(* removeIgnoredFields called on its own *)

\* no call of compareWorkflowLogs is under way
CompareIdle ==
    /\ blueLogs = <<>> /\ greenLogs = <<>>
    /\ options = NoConfig /\ defaultConfig = NoConfig
    /\ report = EmptyReport /\ ci = 0

\* values of other shapes: deeper mappings, arrays of arrays, a top-level
\* array, scalars and null
OtherValues ==
    { Obj(<<KV(P("a"), Obj(<<KV(P("b"), Obj(<<KV(P("c"), Num(1)),
                                               KV(P("level"), Num(5))>>)),
                             KV(P("d"), Num(2))>>)),
            KV(P("uid"), Num(7))>>),
      Obj(<<KV(P("log"), Obj(<<KV(P("file"), Obj(<<KV(P("level"), Str("x")),
                                                    KV(P("v"), Num(1))>>)),
                               KV(P("level"), Str("info"))>>)),
            KV(P("timestamp"), Str("t1"))>>),
      Obj(<<KV(P("items"), Arr(<<Arr(<<Obj(<<KV(P("level"), Num(1)),
                                             KV(P("v"), Null)>>)>>),
                                 Num(4)>>))>>),
      Arr(<<Obj(<<KV(P("level"), Num(1)), KV(P("v"), Num(1))>>),
            Obj(<<KV(P("v"), Num(2))>>)>>),
      Num(1), Str("level"), Null }

FilterInputs == ShortRecords \cup NestedRecords \cup OtherValues

FilterConfigs ==
    OptionSets \cup
    { [ignoreFields |-> <<P2("a", "b")>>, ignorePatterns |-> <<>>],
      [ignoreFields |-> <<P("level")>>, ignorePatterns |-> <<>>],
      [ignoreFields |-> <<>>, ignorePatterns |-> <<WholeRe(P2("log", "level"))>>],
      [ignoreFields |-> <<>>, ignorePatterns |-> <<WholeRe(P("level"))>>],
      [ignoreFields |-> <<>>, ignorePatterns |-> <<PartRe("e")>>],
      [ignoreFields |-> <<P("v")>>,
       ignorePatterns |-> <<BadRe, WholeRe(P2("a", "b")), PartRe("time")>>] }

InitFilter ==
    /\ fobj \in FilterInputs
    /\ fcfg \in FilterConfigs
    /\ fout = Undef
    /\ CompareIdle
    /\ ScoreIdle
    /\ SessionIdle
    /\ FrameIdle
    /\ ErrorsIdle
    /\ ScanIdle
    /\ ValuesIdle
    /\ RagIdle
    /\ GatherIdle
    /\ StreamIdle
    /\ pc = "call"

\* removeIgnoredFields(obj, ignoreFields, ignorePatterns)
RemoveIgnoredFieldsCall ==
    /\ pc = "call"
    /\ fout' = removeIgnoredFields(fobj, fcfg.ignoreFields, fcfg.ignorePatterns, <<>>)
    /\ pc' = IF fout' = Thrown THEN "raised" ELSE "done"
    /\ UNCHANGED <<fobj, fcfg, cmpVars, scoreVars, sessionVars, frameVars, errorVars, scanVars, valueVars, ragVars, gatherVars, streamVars>>

NextFilter == RemoveIgnoredFieldsCall

SpecFilter == InitFilter /\ [][NextFilter]_vars

\* what a field holds, as far as the field itself goes: a scalar, or the kind
\* of its container
Held(v) == IF IsObjectLike(v) THEN [t |-> v.t] ELSE v

RECURSIVE FieldsOf(_, _, _)
\* every field of v at any depth: [path, held, chain], chain = the paths of the
\* field itself and of the fields it lies in
FieldsOf(v, parentPath, chain) ==
    IF v.t = "obj"
    THEN UNION { LET q == KeyPath(parentPath, v.f[j].k)
                 IN  {[path |-> q, held |-> Held(v.f[j].v), chain |-> chain \cup {q}]}
                        \cup FieldsOf(v.f[j].v, q, chain \cup {q})
                 : j \in 1..Len(v.f) }
    ELSE IF v.t = "arr"
    THEN UNION { FieldsOf(v.e[j], IndexPath(parentPath, j - 1), chain)
                 : j \in 1..Len(v.e) }
    ELSE {}

\* the rule of the claim: the full path equals an exclusion name, or a segment
\* does, or a valid pattern matches the full path or a segment
Excluded(path, names, patterns) ==
    \/ \E n \in 1..Len(names) : names[n] = path
    \/ \E n \in 1..Len(names) : \E j \in 1..Len(path) : names[n] = <<path[j]>>
    \/ \E n \in 1..Len(patterns) :
          /\ ~NewRegExpThrows(patterns[n])
          /\ \/ RegexTest(patterns[n], path)
             \/ \E j \in 1..Len(path) : RegexTest(patterns[n], <<path[j]>>)

\* the fields the claim keeps: those not excluded and in no excluded field
KeptFields(v, names, patterns) ==
    { [path |-> f.path, held |-> f.held] :
        f \in { g \in FieldsOf(v, <<>>, {}) :
                  \A q \in g.chain : ~Excluded(q, names, patterns) } }

RECURSIVE SameShape(_, _)
\* arrays keep their length and every value its kind
SameShape(in, out) ==
    /\ in.t = out.t
    /\ in.t = "arr" =>
          /\ Len(in.e) = Len(out.e)
          /\ \A j \in 1..Len(in.e) : SameShape(in.e[j], out.e[j])
    /\ in.t = "obj" =>
          \A j \in 1..Len(out.f) :
             SameShape(in.f[KeyIndex(in.f, out.f[j].k)].v, out.f[j].v)

\* C6: removeIgnoredFields removes a field, with its subtree, exactly when its
\* full path equals an exclusion name, or a dot-separated segment of its path
\* does, or a valid pattern matches the full path or a segment; it does so at
\* every depth, also inside array elements; every other field is kept with its
\* value, and scalars, null and the shape of arrays pass through.
C6_RemovesExactlyExcludedFields ==
    pc = "done" =>
       /\ { [path |-> f.path, held |-> f.held] : f \in FieldsOf(fout, <<>>, {}) }
             = KeptFields(fobj, fcfg.ignoreFields, fcfg.ignorePatterns)
       /\ SameShape(fobj, fout)
       /\ ~IsObjectLike(fobj) => fout = fobj

\* the name level removes the top-level level, log.level and items[0].level
C6_Witness ==
    /\ pc = "done"
    /\ fcfg.ignoreFields = <<P("level")>>
    /\ \E f \in FieldsOf(fobj, <<>>, {}) :
          /\ Len(f.path) = 2
          /\ f.path[2] = Seg("level")
          /\ f.path[1].idx # <<>>
    /\ \A f \in FieldsOf(fout, <<>>, {}) : f.path[Len(f.path)] # Seg("level")
    /\ FieldsOf(fout, <<>>, {}) # {}

---------------------------------------------------------------------------
(* The pattern catalog and the error scorer, src/src/rag/ragAnalyzer.js.   *)
(* Strings are TLA+ strings.  The string operations of the scorer          *)
(* (toLowerCase, trim, toUpperCase, includes, regex.test) are tabulated    *)
(* for the message and level strings of the model; each table row is the   *)
(* value the JavaScript operation gives for that string.                   *)

\* LOG_LEVEL_SEVERITY, ragAnalyzer.js:82-100
LOG_LEVEL_SEVERITY ==
    << [level |-> "fatal", score |-> 100, category |-> "FATAL"],
       [level |-> "critical", score |-> 100, category |-> "CRITICAL"],
       [level |-> "emergency", score |-> 100, category |-> "EMERGENCY"],
       [level |-> "panic", score |-> 100, category |-> "PANIC"],
       [level |-> "error", score |-> 80, category |-> "ERROR"],
       [level |-> "err", score |-> 80, category |-> "ERROR"],
       [level |-> "severe", score |-> 80, category |-> "SEVERE"],
       [level |-> "alert", score |-> 75, category |-> "ALERT"],
       [level |-> "warn", score |-> 50, category |-> "WARNING"],
       [level |-> "warning", score |-> 50, category |-> "WARNING"],
       [level |-> "caution", score |-> 45, category |-> "WARNING"],
       [level |-> "notice", score |-> 20, category |-> "NOTICE"],
       [level |-> "notic", score |-> 20, category |-> "NOTICE"] >>

\* NEGATIVE_ACTION_KEYWORDS, ragAnalyzer.js:106-234, in the order of
\* Object.entries (a key written twice keeps its first place and its last score)
NEGATIVE_ACTION_KEYWORDS ==
    << [keyword |-> "failed", score |-> 15],
       [keyword |-> "failure", score |-> 15],
       [keyword |-> "fail", score |-> 12],
       [keyword |-> "failing", score |-> 12],
       [keyword |-> "error", score |-> 15],
       [keyword |-> "errors", score |-> 15],
       [keyword |-> "errored", score |-> 15],
       [keyword |-> "exception", score |-> 20],
       [keyword |-> "exceptions", score |-> 20],
       [keyword |-> "threw", score |-> 15],
       [keyword |-> "thrown", score |-> 15],
       [keyword |-> "throw", score |-> 12],
       [keyword |-> "unable", score |-> 12],
       [keyword |-> "cannot", score |-> 12],
       [keyword |-> "can't", score |-> 12],
       [keyword |-> "couldn't", score |-> 12],
       [keyword |-> "could not", score |-> 12],
       [keyword |-> "won't", score |-> 10],
       [keyword |-> "wouldn't", score |-> 10],
       [keyword |-> "would not", score |-> 10],
       [keyword |-> "should not", score |-> 8],
       [keyword |-> "must not", score |-> 10],
       [keyword |-> "missing", score |-> 12],
       [keyword |-> "absent", score |-> 10],
       [keyword |-> "not found", score |-> 15],
       [keyword |-> "notfound", score |-> 15],
       [keyword |-> "no such", score |-> 12],
       [keyword |-> "does not exist", score |-> 12],
       [keyword |-> "doesn't exist", score |-> 12],
       [keyword |-> "nonexistent", score |-> 10],
       [keyword |-> "not set", score |-> 12],
       [keyword |-> "unset", score |-> 10],
       [keyword |-> "not defined", score |-> 12],
       [keyword |-> "not available", score |-> 12],
       [keyword |-> "unavailable", score |-> 12],
       [keyword |-> "undefined", score |-> 18],
       [keyword |-> "null", score |-> 15],
       [keyword |-> "nil", score |-> 12],
       [keyword |-> "none", score |-> 10],
       [keyword |-> "n/a", score |-> 12],
       [keyword |-> "empty", score |-> 10],
       [keyword |-> "blank", score |-> 8],
       [keyword |-> "invalid", score |-> 12],
       [keyword |-> "malformed", score |-> 12],
       [keyword |-> "corrupt", score |-> 15],
       [keyword |-> "corrupted", score |-> 15],
       [keyword |-> "broken", score |-> 12],
       [keyword |-> "bad", score |-> 8],
       [keyword |-> "illegal", score |-> 12],
       [keyword |-> "incorrect", score |-> 10],
       [keyword |-> "wrong", score |-> 8],
       [keyword |-> "mismatch", score |-> 10],
       [keyword |-> "inconsistent", score |-> 12],
       [keyword |-> "timeout", score |-> 15],
       [keyword |-> "timed out", score |-> 15],
       [keyword |-> "timedout", score |-> 15],
       [keyword |-> "expired", score |-> 10],
       [keyword |-> "expiration", score |-> 8],
       [keyword |-> "deadline exceeded", score |-> 15],
       [keyword |-> "refused", score |-> 12],
       [keyword |-> "refused connection", score |-> 18],
       [keyword |-> "connection refused", score |-> 18],
       [keyword |-> "disconnected", score |-> 12],
       [keyword |-> "disconnect", score |-> 10],
       [keyword |-> "unreachable", score |-> 15],
       [keyword |-> "connection failed", score |-> 18],
       [keyword |-> "connection error", score |-> 18],
       [keyword |-> "network error", score |-> 15],
       [keyword |-> "connection lost", score |-> 15],
       [keyword |-> "connection reset", score |-> 12],
       [keyword |-> "connection closed", score |-> 10],
       [keyword |-> "denied", score |-> 12],
       [keyword |-> "forbidden", score |-> 12],
       [keyword |-> "unauthorized", score |-> 12],
       [keyword |-> "unauthenticated", score |-> 12],
       [keyword |-> "permission denied", score |-> 15],
       [keyword |-> "access denied", score |-> 15],
       [keyword |-> "not permitted", score |-> 12],
       [keyword |-> "not allowed", score |-> 10],
       [keyword |-> "crash", score |-> 20],
       [keyword |-> "crashed", score |-> 20],
       [keyword |-> "abort", score |-> 15],
       [keyword |-> "aborted", score |-> 15],
       [keyword |-> "terminated", score |-> 12],
       [keyword |-> "killed", score |-> 12],
       [keyword |-> "segfault", score |-> 25],
       [keyword |-> "segmentation fault", score |-> 25],
       [keyword |-> "core dump", score |-> 20],
       [keyword |-> "panic", score |-> 20],
       [keyword |-> "fatal", score |-> 20],
       [keyword |-> "retry", score |-> 8],
       [keyword |-> "retrying", score |-> 8],
       [keyword |-> "retried", score |-> 8],
       [keyword |-> "recovering", score |-> 8],
       [keyword |-> "recovery", score |-> 8],
       [keyword |-> "fallback", score |-> 8],
       [keyword |-> "degraded", score |-> 10],
       [keyword |-> "rejected", score |-> 12],
       [keyword |-> "reject", score |-> 10],
       [keyword |-> "declined", score |-> 10],
       [keyword |-> "unsuccessful", score |-> 15],
       [keyword |-> "incomplete", score |-> 10],
       [keyword |-> "partial", score |-> 8],
       [keyword |-> "skipped", score |-> 8],
       [keyword |-> "ignored", score |-> 6],
       [keyword |-> "dropped", score |-> 12],
       [keyword |-> "lost", score |-> 12],
       [keyword |-> "blocked", score |-> 10],
       [keyword |-> "stuck", score |-> 10],
       [keyword |-> "hung", score |-> 12],
       [keyword |-> "frozen", score |-> 12],
       [keyword |-> "unresponsive", score |-> 15] >>

\* STRUCTURAL_PATTERNS, ragAnalyzer.js:320-450: the score and category of each
\* pattern, in order; line = the source line of its regular expression (the
\* last six are built by buildFieldValuePatterns, lines 262-314)
STRUCTURAL_PATTERNS ==
    << [line |-> 322, score |-> 28, category |-> "NULL_STATE"],
       [line |-> 323, score |-> 28, category |-> "NULL_STATE"],
       [line |-> 326, score |-> 30, category |-> "UNDEFINED_VALUE"],
       [line |-> 327, score |-> 28, category |-> "NULL_VALUE"],
       [line |-> 328, score |-> 25, category |-> "NOT_AVAILABLE"],
       [line |-> 329, score |-> 25, category |-> "EMPTY_VALUE"],
       [line |-> 330, score |-> 28, category |-> "STATUS_FAILURE"],
       [line |-> 333, score |-> 28, category |-> "UNDEFINED_VALUE"],
       [line |-> 334, score |-> 26, category |-> "NULL_VALUE"],
       [line |-> 335, score |-> 24, category |-> "NOT_AVAILABLE"],
       [line |-> 338, score |-> 25, category |-> "STATE_INVALID"],
       [line |-> 341, score |-> 25, category |-> "NULL_RETURN"],
       [line |-> 342, score |-> 25, category |-> "NULL_RETURN"],
       [line |-> 343, score |-> 25, category |-> "NULL_RETURN"],
       [line |-> 344, score |-> 24, category |-> "NULL_RETURN"],
       [line |-> 347, score |-> 22, category |-> "NOT_FOUND"],
       [line |-> 348, score |-> 24, category |-> "NOT_FOUND"],
       [line |-> 349, score |-> 20, category |-> "NOT_FOUND"],
       [line |-> 350, score |-> 20, category |-> "EMPTY_RESULT"],
       [line |-> 351, score |-> 22, category |-> "NOT_FOUND"],
       [line |-> 354, score |-> 22, category |-> "OPERATION_FAILED"],
       [line |-> 355, score |-> 22, category |-> "OPERATION_FAILED"],
       [line |-> 356, score |-> 20, category |-> "OPERATION_FAILED"],
       [line |-> 357, score |-> 22, category |-> "OPERATION_FAILED"],
       [line |-> 360, score |-> 28, category |-> "EXCEPTION"],
       [line |-> 361, score |-> 28, category |-> "EXCEPTION"],
       [line |-> 362, score |-> 22, category |-> "EXCEPTION"],
       [line |-> 363, score |-> 18, category |-> "ERROR_TYPE"],
       [line |-> 364, score |-> 22, category |-> "ERROR_MESSAGE"],
       [line |-> 365, score |-> 30, category |-> "CRITICAL_ERROR"],
       [line |-> 368, score |-> 32, category |-> "STATE_RETRIEVAL_FAILURE"],
       [line |-> 369, score |-> 30, category |-> "SESSION_ERROR"],
       [line |-> 370, score |-> 28, category |-> "STATE_RETRIEVAL_FAILURE"],
       [line |-> 371, score |-> 30, category |-> "IDENTITY_ERROR"],
       [line |-> 372, score |-> 24, category |-> "CACHE_ERROR"],
       [line |-> 373, score |-> 22, category |-> "LOOKUP_FAILURE"],
       [line |-> 376, score |-> 26, category |-> "DATABASE_ERROR"],
       [line |-> 377, score |-> 24, category |-> "DATABASE_ERROR"],
       [line |-> 378, score |-> 28, category |-> "DATABASE_ERROR"],
       [line |-> 379, score |-> 22, category |-> "DATABASE_ERROR"],
       [line |-> 380, score |-> 24, category |-> "DATABASE_ERROR"],
       [line |-> 381, score |-> 26, category |-> "DATABASE_ERROR"],
       [line |-> 384, score |-> 22, category |-> "API_ERROR"],
       [line |-> 385, score |-> 24, category |-> "HTTP_ERROR"],
       [line |-> 386, score |-> 24, category |-> "HTTP_ERROR"],
       [line |-> 387, score |-> 24, category |-> "API_ERROR"],
       [line |-> 388, score |-> 24, category |-> "API_ERROR"],
       [line |-> 391, score |-> 26, category |-> "CONNECTION_ERROR"],
       [line |-> 392, score |-> 24, category |-> "NETWORK_ERROR"],
       [line |-> 393, score |-> 24, category |-> "NETWORK_ERROR"],
       [line |-> 394, score |-> 24, category |-> "NETWORK_ERROR"],
       [line |-> 397, score |-> 32, category |-> "RESOURCE_ERROR"],
       [line |-> 398, score |-> 30, category |-> "MEMORY_ERROR"],
       [line |-> 399, score |-> 30, category |-> "MEMORY_ERROR"],
       [line |-> 400, score |-> 32, category |-> "MEMORY_ERROR"],
       [line |-> 401, score |-> 26, category |-> "RESOURCE_ERROR"],
       [line |-> 404, score |-> 28, category |-> "ASSERTION_FAILURE"],
       [line |-> 405, score |-> 22, category |-> "VALIDATION_ERROR"],
       [line |-> 406, score |-> 20, category |-> "VALIDATION_ERROR"],
       [line |-> 407, score |-> 22, category |-> "VALIDATION_ERROR"],
       [line |-> 408, score |-> 26, category |-> "VALIDATION_ERROR"],
       [line |-> 411, score |-> 24, category |-> "AUTH_ERROR"],
       [line |-> 412, score |-> 24, category |-> "AUTH_ERROR"],
       [line |-> 413, score |-> 24, category |-> "AUTH_ERROR"],
       [line |-> 414, score |-> 24, category |-> "AUTH_ERROR"],
       [line |-> 415, score |-> 24, category |-> "AUTH_ERROR"],
       [line |-> 418, score |-> 22, category |-> "CONFIG_ERROR"],
       [line |-> 419, score |-> 22, category |-> "CONFIG_ERROR"],
       [line |-> 420, score |-> 24, category |-> "CONFIG_ERROR"],
       [line |-> 423, score |-> 24, category |-> "TIMEOUT"],
       [line |-> 424, score |-> 24, category |-> "TIMEOUT"],
       [line |-> 425, score |-> 24, category |-> "TIMEOUT"],
       [line |-> 428, score |-> 22, category |-> "PARSE_ERROR"],
       [line |-> 429, score |-> 22, category |-> "PARSE_ERROR"],
       [line |-> 430, score |-> 24, category |-> "PARSE_ERROR"],
       [line |-> 431, score |-> 22, category |-> "PARSE_ERROR"],
       [line |-> 434, score |-> 24, category |-> "MESSAGE_ERROR"],
       [line |-> 435, score |-> 24, category |-> "MESSAGE_ERROR"],
       [line |-> 436, score |-> 22, category |-> "QUEUE_ERROR"],
       [line |-> 439, score |-> 26, category |-> "DATA_INTEGRITY"],
       [line |-> 440, score |-> 26, category |-> "DATA_INTEGRITY"],
       [line |-> 441, score |-> 26, category |-> "DATA_INTEGRITY"],
       [line |-> 444, score |-> 26, category |-> "CONCURRENCY_ERROR"],
       [line |-> 445, score |-> 26, category |-> "CONCURRENCY_ERROR"],
       [line |-> 446, score |-> 24, category |-> "CONCURRENCY_ERROR"],
       [line |-> 269, score |-> 28, category |-> "NULL_VALUE_ASSIGNMENT"],
       [line |-> 276, score |-> 28, category |-> "NULL_VALUE_ASSIGNMENT"],
       [line |-> 283, score |-> 25, category |-> "NULL_STATE"],
       [line |-> 290, score |-> 25, category |-> "NULL_RETURN"],
       [line |-> 300, score |-> 25, category |-> "STATUS_FAILURE"],
       [line |-> 307, score |-> 25, category |-> "STATUS_FAILURE"] >>

\* CONTEXT_MODIFIERS, ragAnalyzer.js:455-471; the multipliers in tenths
AMPLIFIERS ==
    << [line |-> 458, tenths |-> 15],
       [line |-> 459, tenths |-> 13],
       [line |-> 460, tenths |-> 14],
       [line |-> 461, tenths |-> 14] >>
DAMPENERS ==
    << [line |-> 465, tenths |-> 3],
       [line |-> 466, tenths |-> 5],
       [line |-> 467, tenths |-> 4],
       [line |-> 468, tenths |-> 5],
       [line |-> 469, tenths |-> 7] >>

\* the message strings of the model
Messages ==
    { "ok",
      "get session variable not found",
      "Session ID in Message Data: undefined",
      "operation completed successfully",
      "unexpected errors occurred",
      "fatal error: disk failure",
      "connection refused",
      "retrying request",
      "process crashed",
      "debug test: no error",
      "Errors, errors",
      "if the call should fail",
      "unhandled uncaught exception: critical",
      "user: alice",
      "user: null",
      "status = failed",
      "returned null and got undefined",
      "test error",
      "unexpected error in test",
      "Request FAILED" }

\* the level strings of the model
LevelStrings == { "error", "ERROR", " Warn ", "info", "fatal", "verbose", "constructor", " Fatal " }

\* s.toLowerCase()
ToLowerCase(s) ==
    CASE s = "Session ID in Message Data: undefined" -> "session id in message data: undefined"
       [] s = "Errors, errors" -> "errors, errors"
       [] s = "Request FAILED" -> "request failed"
       [] s = "ERROR" -> "error"
       [] s = " Warn " -> " warn "
       [] s = " Fatal " -> " fatal "
       [] OTHER -> s

TrimNothing(s) == s

\* s.trim()
Trim(s) ==
    CASE s = " fatal " -> "fatal"
       [] s = " warn " -> "warn"
       [] OTHER -> s

\* s.toUpperCase()
ToUpperCase(s) ==
    CASE s = "alert" -> "ALERT"
       [] s = "caution" -> "CAUTION"
       [] s = "constructor" -> "CONSTRUCTOR"
       [] s = "critical" -> "CRITICAL"
       [] s = "emergency" -> "EMERGENCY"
       [] s = "err" -> "ERR"
       [] s = "error" -> "ERROR"
       [] s = "fatal" -> "FATAL"
       [] s = "info" -> "INFO"
       [] s = "notic" -> "NOTIC"
       [] s = "notice" -> "NOTICE"
       [] s = "panic" -> "PANIC"
       [] s = "severe" -> "SEVERE"
       [] s = "verbose" -> "VERBOSE"
       [] s = "warn" -> "WARN"
       [] s = "warning" -> "WARNING"
       [] OTHER -> s

\* the keywords k of NEGATIVE_ACTION_KEYWORDS with s.includes(k)
KeywordsIn(s) ==
    CASE s = "get session variable not found" -> {"not found"}
       [] s = "Session ID in Message Data: undefined" -> {"undefined"}
       [] s = "unexpected errors occurred" -> {"error", "errors"}
       [] s = "fatal error: disk failure" -> {"failure", "fail", "error", "fatal"}
       [] s = "connection refused" -> {"refused", "connection refused"}
       [] s = "retrying request" -> {"retry", "retrying"}
       [] s = "process crashed" -> {"crash", "crashed"}
       [] s = "debug test: no error" -> {"error"}
       [] s = "Errors, errors" -> {"error", "errors"}
       [] s = "if the call should fail" -> {"fail"}
       [] s = "unhandled uncaught exception: critical" -> {"exception"}
       [] s = "user: null" -> {"null"}
       [] s = "status = failed" -> {"failed", "fail"}
       [] s = "returned null and got undefined" -> {"undefined", "null"}
       [] s = "test error" -> {"error"}
       [] s = "unexpected error in test" -> {"error"}
       [] s = "session id in message data: undefined" -> {"undefined"}
       [] s = "errors, errors" -> {"error", "errors"}
       [] s = "request failed" -> {"failed", "fail"}
       [] OTHER -> {}

\* the positions j with STRUCTURAL_PATTERNS[j].regex.test(s)
PatternsMatching(s) ==
    CASE s = "get session variable not found" -> {16, 32, 33}
       [] s = "Session ID in Message Data: undefined" -> {3, 86}
       [] s = "fatal error: disk failure" -> {29, 30}
       [] s = "connection refused" -> {48}
       [] s = "unhandled uncaught exception: critical" -> {25}
       [] s = "user: null" -> {4, 34, 86}
       [] s = "status = failed" -> {91}
       [] s = "returned null and got undefined" -> {12, 15, 89}
       [] s = "Request FAILED" -> {21, 24}
       [] s = "session id in message data: undefined" -> {3, 86}
       [] s = "request failed" -> {21, 24}
       [] OTHER -> {}

\* the positions j with CONTEXT_MODIFIERS.amplifiers[j].regex.test(s)
AmplifiersMatching(s) ==
    CASE s = "unexpected errors occurred" -> {2}
       [] s = "fatal error: disk failure" -> {1}
       [] s = "unhandled uncaught exception: critical" -> {1, 3, 4}
       [] s = "unexpected error in test" -> {2}
       [] OTHER -> {}

\* the positions j with CONTEXT_MODIFIERS.dampeners[j].regex.test(s)
DampenersMatching(s) ==
    CASE s = "operation completed successfully" -> {1}
       [] s = "debug test: no error" -> {1, 4, 5}
       [] s = "if the call should fail" -> {3}
       [] s = "test error" -> {4}
       [] s = "unexpected error in test" -> {4}
       [] OTHER -> {}

\* the regular expression j of the catalog kind, run on s from the index
\* from: MatchEnds(kind, j, s)[from + 1] is the index after the first match
\* that starts at or after from, -1 (or no element) when there is none
MatchEnds(kind, j, s) ==
    CASE kind = "pattern" /\ j = 16 /\ s = "get session variable not found" ->
            <<30, 30, 30, 30, 30, 30, 30, 30, 30, 30, 30, 30, 30>>
       [] kind = "pattern" /\ j = 32 /\ s = "get session variable not found" ->
            <<30, 30, 30, 30, 30>>
       [] kind = "pattern" /\ j = 33 /\ s = "get session variable not found" ->
            <<30, 30, 30, 30, 30, 30, 30, 30, 30, 30, 30, 30, 30>>
       [] kind = "pattern" /\ j = 3 /\ s = "Session ID in Message Data: undefined" ->
            <<37, 37, 37, 37, 37, 37, 37, 37, 37, 37, 37, 37, 37, 37, 37, 37, 37, 37, 37, 37, 37, 37, 37, 37, 37, 37>>
       [] kind = "pattern" /\ j = 86 /\ s = "Session ID in Message Data: undefined" ->
            <<37, 37, 37, 37, 37, 37, 37, 37, 37, 37, 37, 37, 37, 37, 37, 37, 37, 37, 37, 37, 37, 37, 37, 37, 37, 37>>
       [] kind = "pattern" /\ j = 29 /\ s = "fatal error: disk failure" ->
            <<25, 25, 25, 25, 25, 25, 25>>
       [] kind = "pattern" /\ j = 30 /\ s = "fatal error: disk failure" ->
            <<11>>
       [] kind = "pattern" /\ j = 48 /\ s = "connection refused" ->
            <<18>>
       [] kind = "pattern" /\ j = 25 /\ s = "unhandled uncaught exception: critical" ->
            <<29, 29, 29, 29, 29, 29, 29, 29, 29, 29, 29, 29, 29, 29, 29, 29, 29, 29, 29, 29>>
       [] kind = "pattern" /\ j = 4 /\ s = "user: null" ->
            <<10, 10, 10, 10>>
       [] kind = "pattern" /\ j = 34 /\ s = "user: null" ->
            <<10>>
       [] kind = "pattern" /\ j = 86 /\ s = "user: null" ->
            <<10, 10, 10, 10>>
       [] kind = "pattern" /\ j = 91 /\ s = "status = failed" ->
            <<15, 15, 15, 15, 15, 15>>
       [] kind = "pattern" /\ j = 12 /\ s = "returned null and got undefined" ->
            <<13>>
       [] kind = "pattern" /\ j = 15 /\ s = "returned null and got undefined" ->
            <<31, 31, 31, 31, 31, 31, 31, 31, 31, 31, 31, 31, 31, 31, 31, 31, 31, 31, 31>>
       [] kind = "pattern" /\ j = 89 /\ s = "returned null and got undefined" ->
            <<13, 31, 31, 31, 31, 31, 31, 31, 31, 31, 31, 31, 31, 31, 31, 31, 31, 31, 31>>
       [] kind = "pattern" /\ j = 21 /\ s = "Request FAILED" ->
            <<14>>
       [] kind = "pattern" /\ j = 24 /\ s = "Request FAILED" ->
            <<14>>
       [] kind = "amplifier" /\ j = 2 /\ s = "unexpected errors occurred" ->
            <<10>>
       [] kind = "amplifier" /\ j = 1 /\ s = "fatal error: disk failure" ->
            <<5>>
       [] kind = "amplifier" /\ j = 1 /\ s = "unhandled uncaught exception: critical" ->
            <<38, 38, 38, 38, 38, 38, 38, 38, 38, 38, 38, 38, 38, 38, 38, 38, 38, 38, 38, 38, 38, 38, 38, 38, 38, 38, 38, 38, 38, 38, 38>>
       [] kind = "amplifier" /\ j = 3 /\ s = "unhandled uncaught exception: critical" ->
            <<9>>
       [] kind = "amplifier" /\ j = 4 /\ s = "unhandled uncaught exception: critical" ->
            <<18, 18, 18, 18, 18, 18, 18, 18, 18, 18, 18>>
       [] kind = "amplifier" /\ j = 2 /\ s = "unexpected error in test" ->
            <<10>>
       [] kind = "dampener" /\ j = 1 /\ s = "operation completed successfully" ->
            <<32, 32, 32, 32, 32, 32, 32, 32, 32, 32, 32, 32, 32, 32, 32, 32, 32, 32, 32, 32, 32>>
       [] kind = "dampener" /\ j = 1 /\ s = "debug test: no error" ->
            <<20, 20, 20, 20, 20, 20, 20, 20, 20, 20, 20, 20, 20>>
       [] kind = "dampener" /\ j = 4 /\ s = "debug test: no error" ->
            <<10, 10, 10, 10, 10, 10, 10>>
       [] kind = "dampener" /\ j = 5 /\ s = "debug test: no error" ->
            <<5>>
       [] kind = "dampener" /\ j = 3 /\ s = "if the call should fail" ->
            <<23>>
       [] kind = "dampener" /\ j = 4 /\ s = "test error" ->
            <<4>>
       [] kind = "dampener" /\ j = 4 /\ s = "unexpected error in test" ->
            <<24, 24, 24, 24, 24, 24, 24, 24, 24, 24, 24, 24, 24, 24, 24, 24, 24, 24, 24, 24, 24>>
       [] OTHER -> <<>>

\* the matches of the four key/value patterns (lines 772-778) in the message
\* s, pattern by pattern and from left to right: the trimmed, lower-cased key,
\* its length and the trimmed value
\* lines 781-789
KvMatches(s) ==
    CASE s = "Session ID in Message Data: undefined" -> <<[key |-> "session id in message data", len |-> 26, value |-> "undefined"]>>
       [] s = "fatal error: disk failure" -> <<[key |-> "fatal error", len |-> 11, value |-> "disk"]>>
       [] s = "debug test: no error" -> <<[key |-> "debug test", len |-> 10, value |-> "no"]>>
       [] s = "unhandled uncaught exception: critical" -> <<[key |-> "unhandled uncaught exception", len |-> 28, value |-> "critical"]>>
       [] s = "user: alice" -> <<[key |-> "user", len |-> 4, value |-> "alice"]>>
       [] s = "user: null" -> <<[key |-> "user", len |-> 4, value |-> "null"]>>
       [] s = "status = failed" -> <<[key |-> "status", len |-> 6, value |-> "failed"]>>
       [] s = "user: bob" -> <<[key |-> "user", len |-> 4, value |-> "bob"]>>
       [] s = "user: undefined" -> <<[key |-> "user", len |-> 4, value |-> "undefined"]>>
       [] s = "USER: carol" -> <<[key |-> "user", len |-> 4, value |-> "carol"]>>
       [] s = "status: ok user: null" -> <<[key |-> "status", len |-> 6, value |-> "ok"], [key |-> "user", len |-> 4, value |-> "null"]>>
       [] s = "id: 7" -> <<[key |-> "id", len |-> 2, value |-> "7"]>>
       [] s = "for: all" -> <<[key |-> "for", len |-> 3, value |-> "all"]>>
       [] s = "status = ok" -> <<[key |-> "status", len |-> 6, value |-> "ok"]>>
       [] s = "name: Nancy" -> <<[key |-> "name", len |-> 4, value |-> "Nancy"]>>
       [] s = "user = N/A" -> <<[key |-> "user", len |-> 4, value |-> "N/A"]>>
       [] OTHER -> <<>>

\* messages with key/value pairs, for extractKeyValuePairs
KvMessages ==
    { "user: bob",
      "user: undefined",
      "USER: carol",
      "status: ok user: null",
      "id: 7",
      "for: all",
      "status = ok",
      "name: Nancy",
      "user = N/A" }

\* the characters of the values that KvMatches yields
CharsOf(s) ==
    CASE s = "undefined" -> <<"u", "n", "d", "e", "f", "i", "n", "e", "d">>
       [] s = "disk" -> <<"d", "i", "s", "k">>
       [] s = "no" -> <<"n", "o">>
       [] s = "critical" -> <<"c", "r", "i", "t", "i", "c", "a", "l">>
       [] s = "alice" -> <<"a", "l", "i", "c", "e">>
       [] s = "null" -> <<"n", "u", "l", "l">>
       [] s = "failed" -> <<"f", "a", "i", "l", "e", "d">>
       [] s = "bob" -> <<"b", "o", "b">>
       [] s = "carol" -> <<"c", "a", "r", "o", "l">>
       [] s = "ok" -> <<"o", "k">>
       [] s = "7" -> <<"7">>
       [] s = "all" -> <<"a", "l", "l">>
       [] s = "Nancy" -> <<"N", "a", "n", "c", "y">>
       [] s = "N/A" -> <<"N", "/", "A">>
       [] OTHER -> <<>>

\* nullIndicators, lines 824-830, each token by its characters
nullIndicators ==
    << <<"u", "n", "d", "e", "f", "i", "n", "e", "d">>,
       <<"n", "u", "l", "l">>,
       <<"n", "i", "l">>,
       <<"n", "o", "n", "e">>,
       <<"n", "/", "a">>,
       <<"n", "a">>,
       <<"e", "m", "p", "t", "y">>,
       <<"b", "l", "a", "n", "k">>,
       <<"\"", "\"">>,
       <<"'", "'">>,
       <<"[", "]">>,
       <<"{", "}">>,
       <<"<", "n", "u", "l", "l", ">">>,
       <<"<", "u", "n", "d", "e", "f", "i", "n", "e", "d", ">">>,
       <<"<", "e", "m", "p", "t", "y", ">">>,
       <<"<", "n", "o", "n", "e", ">">>,
       <<"[", "n", "u", "l", "l", "]">>,
       <<"[", "u", "n", "d", "e", "f", "i", "n", "e", "d", "]">>,
       <<"(", "n", "u", "l", "l", ")">>,
       <<"(", "u", "n", "d", "e", "f", "i", "n", "e", "d", ")">>,
       <<"n", "a", "n">>,
       <<"u", "n", "k", "n", "o", "w", "n">>,
       <<"n", "o", "t", " ", "d", "e", "f", "i", "n", "e", "d">>,
       <<"n", "o", "t", " ", "s", "e", "t">>,
       <<"u", "n", "s", "e", "t">>,
       <<"m", "i", "s", "s", "i", "n", "g">>,
       <<"a", "b", "s", "e", "n", "t">>,
       <<"v", "o", "i", "d">>,
       <<"f", "a", "i", "l", "e", "d">>,
       <<"f", "a", "i", "l", "u", "r", "e">>,
       <<"e", "r", "r", "o", "r">>,
       <<"t", "i", "m", "e", "o", "u", "t">>,
       <<"u", "n", "a", "v", "a", "i", "l", "a", "b", "l", "e">> >>


\* ragAnalyzer.js:476
ERROR_SCORE_THRESHOLD == 25

\* ragAnalyzer.js:481
HIGH_CONFIDENCE_THRESHOLD == 50

\* v.k of a value v that is neither null nor undefined
Prop(v, k) ==
    IF v.t = "obj" /\ KeyIndex(v.f, k) # 0 THEN v.f[KeyIndex(v.f, k)].v ELSE Undef

\* v?.k
OptProp(v, k) == IF v.t \in {"undef", "null"} THEN Undef ELSE Prop(v, k)

OrElseUndefinedOnly(a, b) == IF a = Undef THEN b ELSE a

\* a || b
OrElse(a, b) == IF Falsy(a) THEN b ELSE a

toLowerCaseKeepsCase(v) == IF v.t = "str" THEN v ELSE Thrown

\* v.toLowerCase(): a method of strings only, a TypeError for any other value
toLowerCase(v) == IF v.t = "str" THEN Str(ToLowerCase(v.s)) ELSE Thrown

\* the position of the entry of LOG_LEVEL_SEVERITY named logLevel, 0 when
\* the table has no such entry
LevelIndex(logLevel) ==
    IF \E j \in 1..Len(LOG_LEVEL_SEVERITY) : LOG_LEVEL_SEVERITY[j].level = logLevel
    THEN CHOOSE j \in 1..Len(LOG_LEVEL_SEVERITY) : LOG_LEVEL_SEVERITY[j].level = logLevel
    ELSE 0

\* LOG_LEVEL_SEVERITY is an object literal, so LOG_LEVEL_SEVERITY[name] also
\* finds what Object.prototype holds under that name.  After toLowerCase()
\* only the all-lower-case names are left: constructor (the function Object)
\* and __proto__ (Object.prototype), both truthy and without score or category.
InheritedNames == {"constructor", "__proto__"}

\* LOG_LEVEL_SEVERITY[logLevel] (line 503): the entry with its score and
\* category, an inherited object whose score and category are undefined, or
\* undefined
LevelLookup(logLevel) ==
    IF LevelIndex(logLevel) # 0
    THEN LET e == LOG_LEVEL_SEVERITY[LevelIndex(logLevel)]
         IN  [found |-> TRUE, score |-> Num(e.score), category |-> Str(e.category)]
    ELSE IF logLevel \in InheritedNames
    THEN [found |-> TRUE, score |-> Undef, category |-> Undef]
    ELSE [found |-> FALSE, score |-> Undef, category |-> Undef]

\* the number NaN
NaN == [t |-> "nan"]

\* a + b of a number a and a number or undefined b
NumAdd(a, b) == IF a.t = "num" /\ b.t = "num" THEN Num(a.n + b.n) ELSE NaN

\* a >= n of a number a and an integer n (false for NaN)
NumGe(a, n) == a.t = "num" /\ a.n >= n

Reason(kind, text) == [kind |-> kind, text |-> text]

\* the result object of line 489
ZeroAnalysis ==
    [score |-> Num(0), categories |-> <<>>, reasons |-> <<>>,
     isError |-> FALSE, confidence |-> "LOW"]

\* lines 503-508: the log level
LevelStep(result, logLevel) ==
    IF logLevel # "" /\ LevelLookup(logLevel).found
    THEN LET levelInfo == LevelLookup(logLevel)
         IN  [result EXCEPT
                !.score = NumAdd(@, levelInfo.score),
                !.categories = Append(@, levelInfo.category),
                !.reasons = Append(@, Reason("Log level", ToUpperCase(logLevel)))]
    ELSE result

\* the entries of NEGATIVE_ACTION_KEYWORDS found in messageLower, in the
\* order of the table
KeywordHits(messageLower) ==
    LET Hit(e) == e.keyword \in KeywordsIn(messageLower)
    IN  SelectSeq(NEGATIVE_ACTION_KEYWORDS, Hit)

\* lines 512-517: the keywords; hits = the entries whose test succeeds
RECURSIVE KeywordStep(_, _)
KeywordStep(result, hits) ==
    IF hits = <<>> THEN result
    ELSE KeywordStep([result EXCEPT
                        !.score = NumAdd(@, Num(Head(hits).score)),
                        !.reasons = Append(@, Reason("Keyword", Head(hits).keyword))],
                     Tail(hits))

\* the patterns of STRUCTURAL_PATTERNS that match message, in the order of
\* the table
PatternHits(message) ==
    LET Hit(j) == j \in PatternsMatching(message)
        at == SelectSeq([j \in 1..Len(STRUCTURAL_PATTERNS) |-> j], Hit)
    IN  [k \in 1..Len(at) |-> STRUCTURAL_PATTERNS[at[k]]]

RECURSIVE PatternStepSkipsKnownCategory(_, _)
PatternStepSkipsKnownCategory(result, hits) ==
    IF hits = <<>> THEN result
    ELSE LET pattern == Head(hits)
         IN  PatternStepSkipsKnownCategory(
                IF Includes(result.categories, Str(pattern.category)) THEN result
                ELSE [result EXCEPT
                        !.score = NumAdd(@, Num(pattern.score)),
                        !.categories = Append(@, Str(pattern.category)),
                        !.reasons = Append(@, Reason("Pattern", pattern.category))],
                Tail(hits))

\* lines 520-528: the structural patterns; hits = the patterns that match
RECURSIVE PatternStep(_, _)
PatternStep(result, hits) ==
    IF hits = <<>> THEN result
    ELSE LET pattern == Head(hits)
         IN  PatternStep([result EXCEPT
                            !.score = NumAdd(@, Num(pattern.score)),
                            !.categories = IF Includes(@, Str(pattern.category)) THEN @
                                           ELSE Append(@, Str(pattern.category)),
                            !.reasons = Append(@, Reason("Pattern", pattern.category))],
                         Tail(hits))

\* the product of the multipliers (in tenths) of the modifiers at positions hit
RECURSIVE TenthsProduct(_, _, _)
TenthsProduct(modifiers, hit, j) ==
    IF j > Len(modifiers) THEN 1
    ELSE (IF j \in hit THEN modifiers[j].tenths ELSE 1)
            * TenthsProduct(modifiers, hit, j + 1)

RECURSIVE Pow10(_)
Pow10(n) == IF n = 0 THEN 1 ELSE 10 * Pow10(n - 1)

\* Math.round(num / den) for num >= 0: halves go up
MathRound(num, den) == (2 * num + den) \div (2 * den)

\* Math.round(score * modifier), modifier = num / den; NaN stays NaN
RoundScaled(score, num, den) ==
    IF score.t = "num" THEN Num(MathRound(score.n * num, den)) ELSE NaN

RECURSIVE RoundAfterEach(_, _)
RoundAfterEach(score, tenths) ==
    IF tenths = <<>> THEN score
    ELSE RoundAfterEach(RoundScaled(score, Head(tenths), 10), Tail(tenths))

ModifierStepRoundsEachTime(result, message) ==
    LET amps == AmplifiersMatching(message)
        damps == DampenersMatching(message)
        HitA(m) == \E j \in amps : AMPLIFIERS[j] = m
        HitD(m) == \E j \in damps : DAMPENERS[j] = m
        hits == SelectSeq(AMPLIFIERS, HitA) \o SelectSeq(DAMPENERS, HitD)
    IN  [result EXCEPT
           !.score = RoundAfterEach(@, [j \in 1..Len(hits) |-> hits[j].tenths]),
           !.reasons = @ \o [j \in 1..Cardinality(amps) |->
                                Reason("Amplifier", "severity increased")]
                         \o [j \in 1..Cardinality(damps) |->
                                Reason("Dampener", "possible false positive")]]

\* lines 531-544: the context modifiers; amps and damps = the positions of the
\* amplifiers and dampeners whose test succeeds, modifier = the product of
\* their multipliers
ModifierStepOn(result, amps, damps) ==
    LET num == TenthsProduct(AMPLIFIERS, amps, 1) * TenthsProduct(DAMPENERS, damps, 1)
        den == Pow10(Cardinality(amps) + Cardinality(damps))
    IN  [result EXCEPT
           !.score = RoundScaled(@, num, den),
           !.reasons = @ \o [j \in 1..Cardinality(amps) |->
                                Reason("Amplifier", "severity increased")]
                         \o [j \in 1..Cardinality(damps) |->
                                Reason("Dampener", "possible false positive")]]

ModifierStep(result, message) ==
    ModifierStepOn(result, AmplifiersMatching(message), DampenersMatching(message))

VerdictStepWithoutFallback(result) ==
    [result EXCEPT
       !.isError = NumGe(result.score, ERROR_SCORE_THRESHOLD),
       !.confidence = IF NumGe(result.score, HIGH_CONFIDENCE_THRESHOLD) THEN "HIGH"
                      ELSE IF NumGe(result.score, ERROR_SCORE_THRESHOLD) THEN "MEDIUM"
                      ELSE "LOW"]

\* lines 547-556: isError, confidence and the fallback category
VerdictStep(result) ==
    LET isError == NumGe(result.score, ERROR_SCORE_THRESHOLD)
    IN  [result EXCEPT
           !.isError = isError,
           !.confidence = IF NumGe(result.score, HIGH_CONFIDENCE_THRESHOLD) THEN "HIGH"
                          ELSE IF NumGe(result.score, ERROR_SCORE_THRESHOLD) THEN "MEDIUM"
                          ELSE "LOW",
           !.categories = IF @ = <<>> /\ isError THEN <<Str("GENERAL_ERROR")>> ELSE @]

\* lines 499-559: the analysis of a record; reading log.message of null or
\* undefined is a TypeError, and so is toLowerCase of a value that is not a
\* string
analyzeRecord(log) ==
    IF log.t \in {"undef", "null"} THEN Thrown
    ELSE
    LET message == OrElse(Prop(log, P("message")), Str(""))
        level == toLowerCase(OrElse(OrElse(OptProp(Prop(log, P("log")), P("level")),
                                           Prop(log, P("level"))),
                                    Str("")))
        messageLower == toLowerCase(message)
    IN  IF level = Thrown \/ messageLower = Thrown THEN Thrown
        ELSE VerdictStep(
                ModifierStep(
                   PatternStep(
                      KeywordStep(LevelStep(ZeroAnalysis, Trim(level.s)),
                                  KeywordHits(messageLower.s)),
                      PatternHits(message.s)),
                   message.s))

analyzeLogForErrorsUnguarded(log) == analyzeRecord(log)

\* analyzeLogForErrors, lines 488-560
analyzeLogForErrors(log) ==
    IF Falsy(log) THEN ZeroAnalysis ELSE analyzeRecord(log)

---------------------------------------------------------------------------
(* analyzeLogForErrors called on one record *)

\* the values a message field holds: the message strings, the empty string,
\* numbers (a numeric CSV cell), null, a mapping and a sequence
MessageValues ==
    {Str(m) : m \in Messages} \cup
    { Str(""), Num(404), Num(0), Null,
      Obj(<<KV(P("code"), Num(1))>>), Arr(<<Str("ok")>>) }

\* the values a level field holds
LevelValues ==
    {Str(l) : l \in LevelStrings} \cup { Num(3), Arr(<<Str("error")>>) }

\* the values the field log holds
LogValues ==
    { Null, Obj(<<>>),
      Obj(<<KV(P("level"), Str("error"))>>),
      Obj(<<KV(P("level"), Str("info"))>>),
      Obj(<<KV(P("level"), Num(2))>>),
      Obj(<<KV(P("level"), Obj(<<KV(P("name"), Str("error"))>>))>>) }

\* the field k absent, or present with one of the values vs
OptionalField(k, vs) == {<<>>} \cup {<<KV(k, v)>> : v \in vs}

ScoreRecords ==
    { Obj(m \o l \o g) : m \in OptionalField(P("message"), MessageValues),
                         l \in OptionalField(P("level"), LevelValues),
                         g \in OptionalField(P("log"), LogValues) }

InitScore ==
    /\ slog \in ScoreRecords \cup {Null, Undef}
    /\ sres = Undef
    /\ CompareIdle
    /\ FilterIdle
    /\ SessionIdle
    /\ FrameIdle
    /\ ErrorsIdle
    /\ ScanIdle
    /\ ValuesIdle
    /\ RagIdle
    /\ GatherIdle
    /\ StreamIdle
    /\ pc = "call"

\* analyzeLogForErrors(log)
AnalyzeCall ==
    /\ pc = "call"
    /\ sres' = analyzeLogForErrors(slog)
    /\ pc' = IF sres' = Thrown THEN "raised" ELSE "done"
    /\ UNCHANGED <<slog, cmpVars, filterVars, sessionVars, frameVars, errorVars, scanVars, valueVars, ragVars, gatherVars, streamVars>>

NextScore == AnalyzeCall

SpecScore == InitScore /\ [][NextScore]_vars

\* C9: no exception escapes the scorer: for every record of the data model,
\* also one whose message or level is a number, a mapping or a sequence,
\* analyzeLogForErrors returns an analysis instead of raising.
C9_NoExceptionEscapes ==
    pc # "call" =>
       /\ pc = "done"
       /\ sres # Thrown
       /\ sres.isError \in BOOLEAN
       /\ sres.confidence \in {"LOW", "MEDIUM", "HIGH"}

\* C10: for a null or absent record analyzeLogForErrors does not raise and
\* returns the zero-value analysis: score 0, not an error, confidence LOW, no
\* categories, no reasons.
C10_NullRecordZeroAnalysis ==
    (pc # "call" /\ slog \in {Null, Undef}) =>
       /\ pc = "done"
       /\ sres.score = Num(0)
       /\ sres.isError = FALSE
       /\ sres.confidence = "LOW"
       /\ sres.categories = <<>>
       /\ sres.reasons = <<>>

\* the call analyzeLogForErrors(null) has returned
C10_Witness ==
    /\ pc = "done"
    /\ slog = Null
    /\ sres.score = Num(0)
    /\ sres.reasons = <<>>

\* an analysis was returned
Returned == pc = "done" /\ sres # Undef /\ sres # Thrown

\* the tiers of lines 547-552 as the spec states them, for a numeric score
TiersOf(a) ==
    /\ a.isError <=> a.score.n >= 25
    /\ a.confidence = "HIGH" <=> a.score.n >= 50
    /\ a.confidence = "MEDIUM" <=> (25 <= a.score.n /\ a.score.n < 50)
    /\ a.confidence = "LOW" <=> a.score.n < 25
    /\ a.confidence = "LOW" <=> ~a.isError

\* C11: every analysis returned has an integer score >= 0, with isError iff
\* score >= 25, HIGH iff score >= 50, MEDIUM iff 25 <= score < 50, LOW iff
\* score < 25, and so LOW exactly when isError is false.
C11_ScoreAndTiers ==
    Returned =>
       /\ sres.score.t = "num"
       /\ sres.score.n \in Nat
       /\ TiersOf(sres)

\* the same for the analyses whose score is a number: the only scores that
\* are not numbers come from a level that names an inherited property
C11_TiersOfNumericScores ==
    Returned =>
       /\ sres.score.t = "num" => sres.score.n \in Nat /\ TiersOf(sres)
       /\ sres.score.t # "num" =>
             /\ sres.score = NaN
             /\ ~sres.isError /\ sres.confidence = "LOW"

\* the level string the scorer reads from a record: log.level, else level
LevelText(log) ==
    OrElse(OrElse(OptProp(Prop(log, P("log")), P("level")), Prop(log, P("level"))),
           Str(""))

\* the record's level is fatal, in any case and with surrounding blanks
IsFatal(log) ==
    /\ log.t = "obj"
    /\ LevelText(log).t = "str"
    /\ LevelText(log).s \in {"fatal", " Fatal "}

\* the message text of a record ("" when the field is absent or null)
MessageText(log) == OrElse(Prop(log, P("message")), Str("")).s

\* the multipliers, in tenths, of the dampeners that match the message
DampenerTenths(message) ==
    {DAMPENERS[j].tenths : j \in DampenersMatching(message)}

SetMin(S) == CHOOSE x \in S : \A y \in S : x <= y

\* C13 as stated: a fatal record scores at least 100 x the smallest multiplier
\* among the dampeners that match its message, and at least 100 with
\* confidence HIGH when no dampener matches.
C13_FatalAtLeastMinDampener ==
    (Returned /\ IsFatal(slog)) =>
       /\ DampenerTenths(MessageText(slog)) # {} =>
             10 * sres.score.n >= 100 * SetMin(DampenerTenths(MessageText(slog)))
       /\ DampenerTenths(MessageText(slog)) = {} =>
             sres.score.n >= 100 /\ sres.confidence = "HIGH"

\* C13 amended: a fatal record scores at least 100 x the product of the
\* multipliers of all the dampeners that match its message, rounded; when
\* no dampener matches, at least 100 with confidence HIGH.
C13_FatalAtLeastDampenerProduct ==
    (Returned /\ IsFatal(slog)) =>
       LET damps == DampenersMatching(MessageText(slog))
       IN  /\ sres.score.t = "num"
           /\ sres.score.n >= MathRound(100 * TenthsProduct(DAMPENERS, damps, 1),
                                        Pow10(Cardinality(damps)))
           /\ damps = {} => sres.score.n >= 100 /\ sres.confidence = "HIGH"

\* a fatal record whose message matches several dampeners scores below
\* 100 x the smallest of their multipliers
C13_Witness ==
    /\ Returned /\ IsFatal(slog)
    /\ Cardinality(DampenersMatching(MessageText(slog))) >= 2
    /\ 10 * sres.score.n < 100 * SetMin(DampenerTenths(MessageText(slog)))
    /\ LevelText(slog).s = " Fatal "

\* the sum of f[x] over the set S
RECURSIVE SumOver(_, _)
SumOver(S, f) ==
    IF S = {} THEN 0
    ELSE LET x == CHOOSE y \in S : TRUE IN f[x] + SumOver(S \ {x}, f)

\* the level of a record as the table knows it: lower-cased and trimmed
LevelName(log) == Trim(ToLowerCase(LevelText(log).s))

\* the level-severity score of a record, 0 when the level is not in the table
LevelScoreOf(log) ==
    LET at == {j \in 1..Len(LOG_LEVEL_SEVERITY) :
                  LOG_LEVEL_SEVERITY[j].level = LevelName(log)}
    IN  SumOver(at, [j \in at |-> LOG_LEVEL_SEVERITY[j].score])

\* the sum of the scores of the keywords contained in the lower-cased message
KeywordScoreOf(message) ==
    LET at == {j \in 1..Len(NEGATIVE_ACTION_KEYWORDS) :
                  NEGATIVE_ACTION_KEYWORDS[j].keyword \in KeywordsIn(ToLowerCase(message))}
    IN  SumOver(at, [j \in at |-> NEGATIVE_ACTION_KEYWORDS[j].score])

\* the sum of the scores of the structural patterns that match the message
PatternScoreOf(message) ==
    LET at == PatternsMatching(message)
    IN  SumOver(at, [j \in at |-> STRUCTURAL_PATTERNS[j].score])

\* S of a record: the level, keyword and pattern contributions added up
AdditiveScore(log) ==
    LevelScoreOf(log) + KeywordScoreOf(MessageText(log)) + PatternScoreOf(MessageText(log))

NoModifier(message) ==
    AmplifiersMatching(message) = {} /\ DampenersMatching(message) = {}

ErrorNotFound ==
    Obj(<<KV(P("message"), Str("get session variable not found")),
          KV(P("level"), Str("error"))>>)

InfoOk == Obj(<<KV(P("message"), Str("ok")), KV(P("level"), Str("info"))>>)

\* C15: when no amplifier and no dampener matches the message, the score is
\* the level-severity score (0 for a level the table does not know) plus the
\* scores of all keywords contained in the lower-cased message plus the
\* scores of all structural patterns that match, uncapped; level error with
\* 'get session variable not found' scores at least 95 and is an error with
\* confidence HIGH, level info with 'ok' scores 0 and is not an error.
C15_AdditiveScore ==
    Returned /\ slog.t = "obj" =>
       /\ NoModifier(MessageText(slog)) => sres.score = Num(AdditiveScore(slog))
       /\ slog = ErrorNotFound =>
             /\ sres.score.n >= 95
             /\ sres.isError /\ sres.confidence = "HIGH"
       /\ slog = InfoOk => sres.score = Num(0) /\ ~sres.isError

\* the same for the records whose level does not name an inherited property
C15_AdditiveScoreOfTableLevels ==
    (Returned /\ slog.t = "obj" /\ LevelName(slog) \notin InheritedNames) =>
       /\ NoModifier(MessageText(slog)) => sres.score = Num(AdditiveScore(slog))
       /\ slog = ErrorNotFound => sres.score = Num(175) /\ sres.confidence = "HIGH"
       /\ slog = InfoOk => sres.score = Num(0) /\ ~sres.isError

\* the product of f[x] over the set S
RECURSIVE ProductOver(_, _)
ProductOver(S, f) ==
    IF S = {} THEN 1
    ELSE LET x == CHOOSE y \in S : TRUE IN f[x] * ProductOver(S \ {x}, f)

\* M of a message as a fraction: the product of the multipliers of the
\* amplifiers and dampeners that match it, each taken once
ModifierNum(message) ==
    ProductOver(AmplifiersMatching(message),
                [j \in AmplifiersMatching(message) |-> AMPLIFIERS[j].tenths])
    * ProductOver(DampenersMatching(message),
                  [j \in DampenersMatching(message) |-> DAMPENERS[j].tenths])

ModifierDen(message) ==
    Pow10(Cardinality(AmplifiersMatching(message))
          + Cardinality(DampenersMatching(message)))

\* the reasons of one kind
ReasonsOf(a, kind) == LET Is(r) == r.kind = kind IN SelectSeq(a.reasons, Is)

NoRepeat(list) ==
    \A i, j \in 1..Len(list) : list[i] = list[j] => i = j

\* the category the level table gives the record's level, if any
LevelCategories(log) ==
    {LOG_LEVEL_SEVERITY[j].category :
        j \in {i \in 1..Len(LOG_LEVEL_SEVERITY) :
                  LOG_LEVEL_SEVERITY[i].level = LevelName(log)}}

\* C17: the categories of an analysis never hold the same tag twice, while
\* every structural pattern that matches adds its score and one reason, also
\* when its category is already in the list; the category of the level, when
\* there is one, is the first tag.
C17_CategoriesDeduplicated ==
    Returned /\ slog.t = "obj" =>
       LET message == MessageText(slog)
       IN  /\ NoRepeat(sres.categories)
           /\ Len(ReasonsOf(sres, "Pattern")) = Cardinality(PatternsMatching(message))
           /\ \A j \in PatternsMatching(message) :
                 Includes(sres.categories, Str(STRUCTURAL_PATTERNS[j].category))
           /\ (sres.score.t = "num" /\ NoModifier(message)) =>
                 sres.score.n - LevelScoreOf(slog) - KeywordScoreOf(message)
                    = PatternScoreOf(message)
           /\ \A c \in LevelCategories(slog) : sres.categories[1] = Str(c)

\* three patterns of the category NULL_RETURN match: 25 + 24 + 25 are added
\* and three reasons given, the tag is listed once, after the level's tag
C17_Witness ==
    /\ Returned
    /\ slog = Obj(<<KV(P("message"), Str("returned null and got undefined")),
                    KV(P("level"), Str("ERROR"))>>)
    /\ sres.categories = <<Str("ERROR"), Str("NULL_RETURN")>>
    /\ Len(ReasonsOf(sres, "Pattern")) = 3
    /\ sres.score = Num(80 + 18 + 15 + 25 + 24 + 25)

\* C18: an analysis that is an error has at least one category; GENERAL_ERROR
\* is among the categories iff the record is an error and neither the level
\* table nor a structural pattern gave a category (keywords never do), and it
\* is then the only tag.
C18_GeneralErrorFallback ==
    Returned /\ slog.t = "obj" =>
       LET uncategorized == /\ LevelCategories(slog) = {}
                            /\ PatternsMatching(MessageText(slog)) = {}
       IN  /\ sres.isError => sres.categories # <<>>
           /\ Includes(sres.categories, Str("GENERAL_ERROR"))
                 <=> (sres.isError /\ uncategorized)
           /\ (sres.isError /\ uncategorized) =>
                 sres.categories = <<Str("GENERAL_ERROR")>>
           /\ (~sres.isError /\ uncategorized /\ LevelName(slog) \notin InheritedNames) =>
                 sres.categories = <<>>

\* 'process crashed' has the keywords crash and crashed (20 + 20) and no
\* pattern: an error whose only tag is GENERAL_ERROR
C18_Witness ==
    /\ Returned
    /\ slog = Obj(<<KV(P("message"), Str("process crashed"))>>)
    /\ sres.isError
    /\ Len(ReasonsOf(sres, "Keyword")) = 2
    /\ sres.categories = <<Str("GENERAL_ERROR")>>

\* the keywords named by the keyword reasons, in their order
CreditedKeywords(a) ==
    [j \in 1..Len(ReasonsOf(a, "Keyword")) |-> ReasonsOf(a, "Keyword")[j].text]

\* C19: every keyword of the table is credited at most once per message,
\* however often it occurs, and it is credited whenever it is a substring of
\* the message in any letter case, word boundary or not: a message with
\* 'errors' is credited for the key error and for the key errors.
C19_KeywordOncePerMessage ==
    Returned /\ slog.t = "obj" =>
       LET message == MessageText(slog)
           credited == CreditedKeywords(sres)
       IN  /\ NoRepeat(credited)
           /\ {credited[j] : j \in 1..Len(credited)} = KeywordsIn(ToLowerCase(message))
           /\ (sres.score.t = "num" /\ NoModifier(message)) =>
                 sres.score.n - LevelScoreOf(slog) - PatternScoreOf(message)
                    = KeywordScoreOf(message)
           /\ message \in {"Errors, errors", "unexpected errors occurred"} =>
                 {"error", "errors"} \subseteq {credited[j] : j \in 1..Len(credited)}

\* 'Errors, errors' holds error four times and errors twice, in two letter
\* cases: each key is credited once, 15 + 15
C19_Witness ==
    /\ Returned
    /\ slog = Obj(<<KV(P("message"), Str("Errors, errors"))>>)
    /\ CreditedKeywords(sres) = <<"error", "errors">>
    /\ sres.score = Num(30)

\* a keyword written in capitals only is credited too
C19_WitnessUpperCase ==
    /\ Returned
    /\ slog = Obj(<<KV(P("message"), Str("Request FAILED"))>>)
    /\ CreditedKeywords(sres) = <<"failed", "fail">>

\* the record has no message field, or a null one
MessageMissing(log) == log.t = "obj" /\ Prop(log, P("message")) \in {Undef, Null}

C20_WitnessNullMessage ==
    /\ Returned
    /\ slog = Obj(<<KV(P("message"), Null)>>)
    /\ sres.score = Num(0)
    /\ sres.isError = FALSE

---------------------------------------------------------------------------
(* Requests served by one process: every call runs to completion before    *)
(* the next one starts, and calls made for different requests alternate in *)
(* any order. The module-level tables of ragAnalyzer.js are shared by all  *)
(* calls; the only part of them a call could write without an assignment   *)
(* in the source is the lastIndex of a regular expression.                 *)

PatternFlagsGlobal == "gi"

\* the flags of the regular expressions of the catalog: the literals of
\* lines 322-449 and 458-469 end in /i, lines 269-307 pass 'i' to RegExp
PatternFlags == "i"

IsGlobal(flags) == flags \in {"g", "gi"}

\* regex.test(s) of a regular expression with these flags whose lastIndex
\* is last; ends = its MatchEnds on s. A global expression searches from
\* lastIndex and moves it behind the match, or back to 0 when there is none;
\* any other expression searches from 0 and leaves lastIndex alone.
RegExpTest(flags, ends, last) ==
    IF IsGlobal(flags)
    THEN IF last + 1 \in DOMAIN ends /\ ends[last + 1] # -1
         THEN [matched |-> TRUE, lastIndex |-> ends[last + 1]]
         ELSE [matched |-> FALSE, lastIndex |-> 0]
    ELSE [matched |-> 1 \in DOMAIN ends /\ ends[1] # -1, lastIndex |-> last]

\* the lastIndex of every regular expression when the module has been loaded
FreshLastIndex ==
    [pattern   |-> [j \in 1..Len(STRUCTURAL_PATTERNS) |-> 0],
     amplifier |-> [j \in 1..Len(AMPLIFIERS) |-> 0],
     dampener  |-> [j \in 1..Len(DAMPENERS) |-> 0]]

\* regex.test(message) of every regular expression of one catalog, in order
TestAll(kind, message, last) ==
    [j \in DOMAIN last[kind] |->
        RegExpTest(PatternFlags, MatchEnds(kind, j, message), last[kind][j])]

\* analyzeLogForErrors, lines 488-560, with the state it shares with other
\* calls: the analysis returned (or Thrown) and the lastIndex values it leaves
analyzeShared(log, last) ==
    IF Falsy(log) THEN [result |-> ZeroAnalysis, lastIndex |-> last]
    ELSE
    LET message == OrElse(Prop(log, P("message")), Str(""))
        level == toLowerCase(OrElse(OrElse(OptProp(Prop(log, P("log")), P("level")),
                                           Prop(log, P("level"))),
                                    Str("")))
        messageLower == toLowerCase(message)
    IN  IF level = Thrown \/ messageLower = Thrown
        THEN [result |-> Thrown, lastIndex |-> last]
        ELSE
        LET tp == TestAll("pattern", message.s, last)
            ta == TestAll("amplifier", message.s, last)
            td == TestAll("dampener", message.s, last)
            Hit(j) == tp[j].matched
            at == SelectSeq([j \in 1..Len(STRUCTURAL_PATTERNS) |-> j], Hit)
            hits == [k \in 1..Len(at) |-> STRUCTURAL_PATTERNS[at[k]]]
        IN  [result |->
                VerdictStep(
                   ModifierStepOn(
                      PatternStep(
                         KeywordStep(LevelStep(ZeroAnalysis, Trim(level.s)),
                                     KeywordHits(messageLower.s)),
                         hits),
                      {j \in DOMAIN ta : ta[j].matched},
                      {j \in DOMAIN td : td[j].matched})),
             lastIndex |-> [pattern   |-> [j \in DOMAIN tp |-> tp[j].lastIndex],
                            amplifier |-> [j \in DOMAIN ta |-> ta[j].lastIndex],
                            dampener  |-> [j \in DOMAIN td |-> td[j].lastIndex]]]

\* String(v), which RegExp.prototype.exec applies to its argument, for the
\* message values of the model
RECURSIVE ToStringOf(_)
ToStringOf(v) ==
    CASE v.t = "str" -> v.s
      [] v.t = "num" /\ v.n = 404 -> "404"
      [] v.t = "num" /\ v.n = 0 -> "0"
      [] v.t = "obj" -> "[object Object]"
      [] v.t = "arr" /\ Len(v.e) = 1 -> ToStringOf(v.e[1])
      [] OTHER -> ""

\* String.prototype.toLowerCase on one character, line 823
LowerChar(c) ==
    CASE c = "A" -> "a"
      [] c = "B" -> "b"
      [] c = "C" -> "c"
      [] c = "D" -> "d"
      [] c = "E" -> "e"
      [] c = "F" -> "f"
      [] c = "G" -> "g"
      [] c = "H" -> "h"
      [] c = "I" -> "i"
      [] c = "J" -> "j"
      [] c = "K" -> "k"
      [] c = "L" -> "l"
      [] c = "M" -> "m"
      [] c = "N" -> "n"
      [] c = "O" -> "o"
      [] c = "P" -> "p"
      [] c = "Q" -> "q"
      [] c = "R" -> "r"
      [] c = "S" -> "s"
      [] c = "T" -> "t"
      [] c = "U" -> "u"
      [] c = "V" -> "v"
      [] c = "W" -> "w"
      [] c = "X" -> "x"
      [] c = "Y" -> "y"
      [] c = "Z" -> "z"
      [] OTHER -> c

\* value.toLowerCase(), line 823
toLowerCaseChars(value) == [j \in 1..Len(value) |-> LowerChar(value[j])]

\* the white space String.prototype.trim removes
WhiteSpace == {" ", "\t", "\n", "\r"}

\* value.trim(), line 823
RECURSIVE trimChars(_)
trimChars(value) ==
    IF value = <<>> THEN value
    ELSE IF Head(value) \in WhiteSpace THEN trimChars(Tail(value))
    ELSE IF value[Len(value)] \in WhiteSpace THEN trimChars(SubSeq(value, 1, Len(value) - 1))
    ELSE value

\* lowerValue.startsWith(ind), line 831
startsWith(value, ind) ==
    /\ Len(ind) <= Len(value)
    /\ SubSeq(value, 1, Len(ind)) = ind

\* line 831 with exact equality only
IndicatorMatchesExactly(lowerValue, ind) == lowerValue = ind

\* line 831: ind => lowerValue === ind || lowerValue.startsWith(ind)
IndicatorMatches(lowerValue, ind) == lowerValue = ind \/ startsWith(lowerValue, ind)

\* isNullOrErrorValue, lines 821-832, on the characters of value
isNullOrErrorChars(value) ==
    IF value = <<>> THEN TRUE
    ELSE LET lowerValue == trimChars(toLowerCaseChars(value))
         IN  \E j \in 1..Len(nullIndicators) : IndicatorMatches(lowerValue, nullIndicators[j])

\* isNullOrErrorValue(value), lines 821-832
isNullOrErrorValue(value) == isNullOrErrorChars(CharsOf(value))

\* the position of key in kvMap, 0 when kvMap has no such key
KvIndex(kvMap, key) ==
    IF \E j \in 1..Len(kvMap) : kvMap[j].key = key
    THEN CHOOSE j \in 1..Len(kvMap) : kvMap[j].key = key
    ELSE 0

\* lines 787-805 with every valid value replacing the stored one
KvStoreLatestValid(kvMap, match) ==
    IF match.len < 3 \/ match.key \in {"the", "and", "for", "with"} THEN kvMap
    ELSE LET isInvalidValue == isNullOrErrorValue(match.value)
             at == KvIndex(kvMap, match.key)
         IN  IF at = 0
             THEN Append(kvMap, [key |-> match.key, value |-> match.value,
                                 isInvalid |-> isInvalidValue, count |-> 1])
             ELSE [kvMap EXCEPT ![at] =
                     [key |-> kvMap[at].key,
                      value |-> IF ~isInvalidValue THEN match.value ELSE kvMap[at].value,
                      isInvalid |-> kvMap[at].isInvalid /\ isInvalidValue,
                      count |-> kvMap[at].count + 1]]

\* lines 787-805: one match of a key/value pattern
KvStore(kvMap, match) ==
    IF match.len < 3 \/ match.key \in {"the", "and", "for", "with"} THEN kvMap
    ELSE LET isInvalidValue == isNullOrErrorValue(match.value)
             at == KvIndex(kvMap, match.key)
         IN  IF at = 0
             THEN Append(kvMap, [key |-> match.key, value |-> match.value,
                                 isInvalid |-> isInvalidValue, count |-> 1])
             ELSE LET existing == kvMap[at]
                      update == existing.isInvalid /\ ~isInvalidValue
                  IN  [kvMap EXCEPT ![at] =
                         [key |-> existing.key,
                          value |-> IF update THEN match.value ELSE existing.value,
                          isInvalid |-> IF update THEN FALSE ELSE existing.isInvalid,
                          count |-> existing.count + 1]]

RECURSIVE KvStoreAll(_, _)
KvStoreAll(kvMap, matches) ==
    IF matches = <<>> THEN kvMap
    ELSE KvStoreAll(KvStore(kvMap, Head(matches)), Tail(matches))

\* lines 781-808: the loop over the records. The four patterns are created by
\* the call (lines 770-779) and their lastIndex is set to 0 before each
\* message, so KvMatches is what the exec loop yields
RECURSIVE KvScan(_, _)
KvScan(kvMap, logs) ==
    IF logs = <<>> THEN kvMap
    ELSE LET message == OrElse(Prop(Head(logs), P("message")), Str(""))
         IN  KvScan(KvStoreAll(kvMap, KvMatches(ToStringOf(message))), Tail(logs))

\* extractKeyValuePairs, lines 766-814: the entries of the map returned, in
\* insertion order; log.message of null or undefined is a TypeError
extractKeyValuePairs(logs) ==
    IF \E j \in 1..Len(logs) : logs[j].t \in {"undef", "null"} THEN Thrown
    ELSE [t |-> "map", e |-> KvScan(<<>>, logs)]

\* the requests served at the same time
Requests == {1, 2}

\* the number of calls in one run
MaxCalls == 3

\* the records of the requests
SessionRecords ==
    { Null,
      Obj(<<KV(P("message"), Str("connection refused"))>>),
      Obj(<<KV(P("message"), Str("user: null")), KV(P("level"), Str("error"))>>),
      Obj(<<KV(P("message"), Str("debug test: no error")), KV(P("level"), Str(" Fatal "))>>),
      Obj(<<KV(P("message"), Str("unhandled uncaught exception: critical"))>>),
      Obj(<<KV(P("message"), Str("ok")), KV(P("level"), Str("constructor"))>>),
      Obj(<<KV(P("message"), Num(404))>>) }

InitSession ==
    /\ requests \in [Requests -> SessionRecords]
    /\ calls = <<>>
    /\ lastIndex = FreshLastIndex
    /\ CompareIdle
    /\ FilterIdle
    /\ ScoreIdle
    /\ FrameIdle
    /\ ErrorsIdle
    /\ ScanIdle
    /\ ValuesIdle
    /\ RagIdle
    /\ GatherIdle
    /\ StreamIdle
    /\ pc = "session"

\* request r calls analyzeLogForErrors on its record
SessionAnalyze(r) ==
    /\ pc = "session"
    /\ Len(calls) < MaxCalls
    /\ LET out == analyzeShared(requests[r], lastIndex)
       IN  /\ calls' = Append(calls, [request |-> r, op |-> "analyzeLogForErrors",
                                      log |-> requests[r], result |-> out.result])
           /\ lastIndex' = out.lastIndex
    /\ UNCHANGED <<requests, pc, cmpVars, filterVars, scoreVars, frameVars, errorVars, scanVars, valueVars, ragVars, gatherVars, streamVars>>

\* request r calls extractKeyValuePairs on its record
SessionExtract(r) ==
    /\ pc = "session"
    /\ Len(calls) < MaxCalls
    /\ calls' = Append(calls, [request |-> r, op |-> "extractKeyValuePairs",
                               log |-> requests[r],
                               result |-> extractKeyValuePairs(<<requests[r]>>)])
    /\ UNCHANGED <<requests, lastIndex, pc, cmpVars, filterVars, scoreVars, frameVars, errorVars, scanVars, valueVars, ragVars, gatherVars, streamVars>>

NextSession ==
    \E r \in Requests : SessionAnalyze(r) \/ SessionExtract(r)

SpecSession == InitSession /\ [][NextSession]_vars

\* the calls of analyzeLogForErrors that have returned or raised
AnalyzeCalls == {j \in 1..Len(calls) : calls[j].op = "analyzeLogForErrors"}

\* C12: analyzeLogForErrors is deterministic and free of side effects: two
\* calls on the same record return identical analyses, whatever scoring or
\* key/value extraction calls were made in between, and the record of every
\* call is afterwards what it was when the call was made.
C12_DeterministicAnalysis ==
    /\ \A i \in AnalyzeCalls : \A j \in AnalyzeCalls :
          calls[i].log = calls[j].log => calls[i].result = calls[j].result
    /\ \A j \in 1..Len(calls) : requests[calls[j].request] = calls[j].log

\* request 1 scores 'connection refused' twice, request 2 extracts the
\* key/value pairs of another record in between
C12_Witness ==
    /\ Len(calls) = 3
    /\ calls[1].op = "analyzeLogForErrors" /\ calls[1].request = 1
    /\ calls[2].op = "extractKeyValuePairs" /\ calls[2].request = 2
    /\ calls[3].op = "analyzeLogForErrors" /\ calls[3].request = 1
    /\ calls[1].log = Obj(<<KV(P("message"), Str("connection refused"))>>)
    /\ calls[2].result = [t |-> "map",
                           e |-> <<[key |-> "user", value |-> "null",
                                    isInvalid |-> TRUE, count |-> 1]>>]
    /\ calls[3].result = calls[1].result
    /\ calls[3].result.isError = TRUE

\* C14: the calls share no mutable state: the static tables, the regular
\* expressions of the catalog included, are what they were when the module
\* was loaded after any number of calls, and every call made for a request,
\* whatever calls for other requests come before it, returns what the same
\* call returns when the request runs alone.
C14_NoInterference ==
    /\ lastIndex = FreshLastIndex
    /\ \A j \in 1..Len(calls) :
          calls[j].result =
             IF calls[j].op = "analyzeLogForErrors"
             THEN analyzeShared(calls[j].log, FreshLastIndex).result
             ELSE extractKeyValuePairs(<<calls[j].log>>)

\* the calls of two requests with different records alternate: 1, 2, 1
C14_Witness ==
    /\ Len(calls) = 3
    /\ \A j \in 1..3 : calls[j].op = "analyzeLogForErrors"
    /\ calls[1].request = 1 /\ calls[2].request = 2 /\ calls[3].request = 1
    /\ requests[1] = Obj(<<KV(P("message"), Str("debug test: no error")),
                           KV(P("level"), Str(" Fatal "))>>)
    /\ requests[2] = Obj(<<KV(P("message"), Str("unhandled uncaught exception: critical"))>>)
    /\ calls[1].result.score = Num(12)
    /\ calls[2].result.isError = TRUE
    /\ calls[3].result = calls[1].result

---------------------------------------------------------------------------
(* The report of compareWorkflowLogs, pair by pair *)

\* the paired indices the loop has visited whose filtered records differ
MismatchedPairs ==
    {i \in Paired : i < ci /\ ~FieldIdentical(Filtered(At(blueLogs, i)),
                                              Filtered(At(greenLogs, i)))}

\* no field of v, at any depth, is excluded by the configuration of the call
NoExcludedField(v) ==
    \A f \in FieldsOf(v, <<>>, {}) :
       ~Excluded(f.path, report.ignoredFields, report.ignoredPatterns)

\* C21: an index pair is counted as matched iff the diff of the two filtered
\* records is empty, otherwise as mismatched; logDifferences holds exactly one
\* entry per mismatched pair, in increasing index order, each with a non-empty
\* differences list, and the blueLog and greenLog it retains are the filtered
\* records, with no excluded field at any depth.
C21_MismatchedPairsReported ==
    Running =>
       LET ld == report.logDifferences
       IN  /\ \A i \in Paired : i < ci =>
                 (i \in MismatchedPairs
                    <=> diff(Filtered(At(blueLogs, i)), Filtered(At(greenLogs, i))) # <<>>)
           /\ report.summary.mismatchedCount = Cardinality(MismatchedPairs)
           /\ report.summary.matchedCount
                 = Cardinality({i \in Paired : i < ci}) - Cardinality(MismatchedPairs)
           /\ Len(ld) = Cardinality(MismatchedPairs)
           /\ {ld[j].index : j \in 1..Len(ld)} = MismatchedPairs
           /\ \A j \in 1..Len(ld) : \A k \in 1..Len(ld) :
                 j < k => ld[j].index < ld[k].index
           /\ \A j \in 1..Len(ld) :
                 /\ ld[j].differences # <<>>
                 /\ ld[j].blueLog = Filtered(At(blueLogs, ld[j].index))
                 /\ ld[j].greenLog = Filtered(At(greenLogs, ld[j].index))
                 /\ NoExcludedField(ld[j].blueLog)
                 /\ NoExcludedField(ld[j].greenLog)

\* two mismatched pairs around a matched one, timestamp excluded: the entries
\* 0 and 2 retain the records without their timestamp
C21_Witness ==
    /\ pc = "done"
    /\ blueLogs = <<RecT1V1, RecT1V1, RecT1V1>>
    /\ greenLogs = <<RecT1V2, RecT2V1, RecT1V2>>
    /\ report.ignoredFields = <<P("timestamp")>>
    /\ Len(report.logDifferences) = 2
    /\ report.logDifferences[1].index = 0
    /\ report.logDifferences[2].index = 2
    /\ report.logDifferences[2].blueLog = Obj(<<KV(P("v"), Num(1))>>)
    /\ report.logDifferences[2].greenLog = Obj(<<KV(P("v"), Num(2))>>)
    /\ report.summary.matchedCount = 1

---------------------------------------------------------------------------
(* Objects and arrays as the program holds them: a mapping or an array is  *)
(* a cell of the heap, known by its address, and a value is a scalar or a  *)
(* reference [t |-> "ref", a |-> address].  removeIgnoredFields,           *)
(* logComparator.js:70-90, and compareWorkflowLogs, lines 142-201, on such *)
(* values: which cells they create and which they write.                   *)

Ref(a) == [t |-> "ref", a |-> a]

\* e, with the heap h evaluated first: TLC evaluates an argument when it is
\* first used, and a heap handed on unevaluated from call to call nests too
\* deep for its stack
Strict(h, e) == IF Len(h) >= 0 THEN e ELSE e

RECURSIVE Store(_, _)
RECURSIVE StoreAll(_, _, _)
\* the heap h with the value v put into it, containers first to last:
\* [heap, v], v the scalar itself or the reference to its cell
Store(h, v) ==
    IF v.t = "obj"
    THEN LET r == StoreAll(h, [j \in 1..Len(v.f) |-> v.f[j].v], 1)
         IN  [heap |-> Append(r.heap, Obj([j \in 1..Len(v.f) |-> KV(v.f[j].k, r.vs[j])])),
              v |-> Ref(Len(r.heap) + 1)]
    ELSE IF v.t = "arr"
    THEN LET r == StoreAll(h, v.e, 1)
         IN  [heap |-> Append(r.heap, Arr(r.vs)), v |-> Ref(Len(r.heap) + 1)]
    ELSE [heap |-> h, v |-> v]

StoreAll(h, vs, j) ==
    Strict(h,
        IF j > Len(vs) THEN [heap |-> h, vs |-> <<>>]
        ELSE LET first == Store(h, vs[j])
                 rest == StoreAll(first.heap, vs, j + 1)
             IN  [heap |-> rest.heap, vs |-> <<first.v>> \o rest.vs])

RECURSIVE Load(_, _)
\* the value v of the heap h, written out
Load(h, v) ==
    IF v.t # "ref" THEN v
    ELSE IF h[v.a].t = "obj"
    THEN Obj([j \in 1..Len(h[v.a].f) |-> KV(h[v.a].f[j].k, Load(h, h[v.a].f[j].v))])
    ELSE Arr([j \in 1..Len(h[v.a].e) |-> Load(h, h[v.a].e[j])])

RECURSIVE Reach(_, _)
\* the addresses of the cells v consists of
Reach(h, v) ==
    IF v.t # "ref" THEN {}
    ELSE {v.a} \cup
         (IF h[v.a].t = "obj"
          THEN UNION {Reach(h, h[v.a].f[j].v) : j \in 1..Len(h[v.a].f)}
          ELSE UNION {Reach(h, h[v.a].e[j]) : j \in 1..Len(h[v.a].e)})

NewObjectIsTheInput(h, obj) == [heap |-> h, v |-> obj]

\* line 81, const result = {}: a new cell
NewObject(h, obj) == [heap |-> Append(h, Obj(<<>>)), v |-> Ref(Len(h) + 1)]

\* line 85, result[key] = value
SetProperty(h, result, key, value) ==
    [h EXCEPT ![result.a].f =
        IF KeyIndex(@, key) # 0 THEN [@ EXCEPT ![KeyIndex(@, key)].v = value]
        ELSE Append(@, KV(key, value))]

RECURSIVE removeIgnoredFieldsAt(_, _, _, _, _)
RECURSIVE FilterEntriesAt(_, _, _, _, _, _, _)
RECURSIVE MapItemsAt(_, _, _, _, _, _)

\* lines 82-88 from entry j of the entries read at line 82: the heap
FilterEntriesAt(h, result, entries, j, ignoreFields, ignorePatterns, parentPath) ==
    Strict(h,
        IF j > Len(entries) THEN h
        ELSE LET fullPath == KeyPath(parentPath, entries[j].k)
             IN  IF shouldIgnoreField(fullPath, ignoreFields, ignorePatterns) = "no"
                 THEN LET sub == removeIgnoredFieldsAt(h, entries[j].v, ignoreFields,
                                                       ignorePatterns, fullPath)
                      IN  FilterEntriesAt(SetProperty(sub.heap, result, entries[j].k, sub.v),
                                          result, entries, j + 1, ignoreFields,
                                          ignorePatterns, parentPath)
                 ELSE FilterEntriesAt(h, result, entries, j + 1, ignoreFields,
                                      ignorePatterns, parentPath))

\* lines 76-78, the callback of obj.map from item j on: [heap, vs]
MapItemsAt(h, items, j, ignoreFields, ignorePatterns, parentPath) ==
    Strict(h,
        IF j > Len(items) THEN [heap |-> h, vs |-> <<>>]
        ELSE LET first == removeIgnoredFieldsAt(h, items[j], ignoreFields, ignorePatterns,
                                                IndexPath(parentPath, j - 1))
                 rest == MapItemsAt(first.heap, items, j + 1, ignoreFields, ignorePatterns,
                                    parentPath)
             IN  [heap |-> rest.heap, vs |-> <<first.v>> \o rest.vs])

\* removeIgnoredFields, lines 70-90: [heap, v], the heap after the call and
\* the value returned
removeIgnoredFieldsAt(h, obj, ignoreFields, ignorePatterns, parentPath) ==
    IF obj.t # "ref" THEN [heap |-> h, v |-> obj]
    ELSE IF h[obj.a].t = "arr"
    THEN LET r == MapItemsAt(h, h[obj.a].e, 1, ignoreFields, ignorePatterns, parentPath)
         IN  [heap |-> Append(r.heap, Arr(r.vs)), v |-> Ref(Len(r.heap) + 1)]
    ELSE LET result == NewObject(h, obj)
         IN  [heap |-> FilterEntriesAt(result.heap, result.v, h[obj.a].f, 1,
                                       ignoreFields, ignorePatterns, parentPath),
              v |-> result.v]

RECURSIVE CompareLoopAt(_, _, _, _, _, _, _)
\* the for loop of compareWorkflowLogs, lines 169-198, from index i on, blue
\* and green the elements of the two arrays: [heap, report], the report
\* reduced to the records it retains
CompareLoopAt(h, blue, green, i, ignoreFields, ignorePatterns, rep) ==
    Strict(h,
        IF i >= Max2(Len(blue), Len(green)) THEN [heap |-> h, report |-> rep]
        ELSE LET blueLog == At(blue, i)
                 greenLog == At(green, i)
             IN  IF blueLog = Undef
                 THEN CompareLoopAt(h, blue, green, i + 1, ignoreFields, ignorePatterns,
                         [rep EXCEPT !.greenOnlyLogs = Append(@, [index |-> i, log |-> greenLog])])
                 ELSE IF greenLog = Undef
                 THEN CompareLoopAt(h, blue, green, i + 1, ignoreFields, ignorePatterns,
                         [rep EXCEPT !.blueOnlyLogs = Append(@, [index |-> i, log |-> blueLog])])
                 ELSE LET filteredBlue == removeIgnoredFieldsAt(h, blueLog, ignoreFields,
                                                                ignorePatterns, <<>>)
                          filteredGreen == removeIgnoredFieldsAt(filteredBlue.heap, greenLog,
                                                                 ignoreFields, ignorePatterns, <<>>)
                          differences == diff(Load(filteredGreen.heap, filteredBlue.v),
                                              Load(filteredGreen.heap, filteredGreen.v))
                          keptBlue == removeIgnoredFieldsAt(filteredGreen.heap, blueLog,
                                                            ignoreFields, ignorePatterns, <<>>)
                          keptGreen == removeIgnoredFieldsAt(keptBlue.heap, greenLog,
                                                             ignoreFields, ignorePatterns, <<>>)
                      IN  IF Len(differences) > 0
                          THEN CompareLoopAt(keptGreen.heap, blue, green, i + 1, ignoreFields,
                                  ignorePatterns,
                                  [rep EXCEPT !.logDifferences =
                                      Append(@, [index |-> i, blueLog |-> keptBlue.v,
                                                 greenLog |-> keptGreen.v])])
                          ELSE CompareLoopAt(filteredGreen.heap, blue, green, i + 1,
                                  ignoreFields, ignorePatterns, rep))

\* compareWorkflowLogs, lines 142-201, on two arrays of the heap
compareWorkflowLogsAt(h, blue, green, ignoreFields, ignorePatterns) ==
    CompareLoopAt(h, h[blue.a].e, h[green.a].e, 0, ignoreFields, ignorePatterns,
                  [logDifferences |-> <<>>, blueOnlyLogs |-> <<>>, greenOnlyLogs |-> <<>>])

\* the longest sequence given to compareWorkflowLogs here
MaxFrameLen == 2

\* the records of these sequences
FrameRecords ==
    { RecT1V1, RecT2V1,
      Obj(<<KV(P("log"), Obj(<<KV(P("level"), Str("info"))>>)), KV(P("v"), Num(1))>>),
      Obj(<<KV(P("items"), Arr(<<Obj(<<KV(P("level"), Num(2)), KV(P("v"), Num(1))>>),
                                 Obj(<<KV(P("v"), Num(3))>>)>>)),
            KV(P("v"), Num(1))>>) }

\* a call of removeIgnoredFields
FilterCall(obj, cfg) ==
    [op |-> "removeIgnoredFields", obj |-> obj, blueLogs |-> Undef,
     greenLogs |-> Undef, cfg |-> cfg]

\* a call of compareWorkflowLogs
CompareCall(blue, green, cfg) ==
    [op |-> "compareWorkflowLogs", obj |-> Undef, blueLogs |-> blue,
     greenLogs |-> green, cfg |-> cfg]

InitFrame ==
    /\ \/ \E obj \in FilterInputs : \E cfg \in FilterConfigs :
             /\ heap = Store(<<>>, obj).heap
             /\ frameCall = FilterCall(Store(<<>>, obj).v, cfg)
       \/ \E blue \in SeqsUpTo(FrameRecords, MaxFrameLen) :
          \E green \in SeqsUpTo(FrameRecords, MaxFrameLen) :
          \E cfg \in ShortOptionSets :
             LET b == Store(<<>>, Arr(blue))
                 g == Store(b.heap, Arr(green))
             IN  /\ heap = g.heap
                 /\ frameCall = CompareCall(b.v, g.v, cfg)
    /\ heapIn = heap
    /\ frameOut = Undef
    /\ CompareIdle
    /\ FilterIdle
    /\ ScoreIdle
    /\ SessionIdle
    /\ ErrorsIdle
    /\ ScanIdle
    /\ ValuesIdle
    /\ RagIdle
    /\ GatherIdle
    /\ StreamIdle
    /\ pc = "call"

\* removeIgnoredFields(obj, ignoreFields, ignorePatterns)
FrameFilter ==
    /\ pc = "call"
    /\ frameCall.op = "removeIgnoredFields"
    /\ LET out == removeIgnoredFieldsAt(heap, frameCall.obj, frameCall.cfg.ignoreFields,
                                        frameCall.cfg.ignorePatterns, <<>>)
       IN  heap' = out.heap /\ frameOut' = out.v
    /\ pc' = "done"
    /\ UNCHANGED <<heapIn, frameCall, cmpVars, filterVars, scoreVars, sessionVars, errorVars, scanVars, valueVars, ragVars, gatherVars, streamVars>>

\* compareWorkflowLogs(blueLogs, greenLogs, options)
FrameCompare ==
    /\ pc = "call"
    /\ frameCall.op = "compareWorkflowLogs"
    /\ LET out == compareWorkflowLogsAt(heap, frameCall.blueLogs, frameCall.greenLogs,
                                        frameCall.cfg.ignoreFields,
                                        frameCall.cfg.ignorePatterns)
       IN  heap' = out.heap /\ frameOut' = out.report
    /\ pc' = "done"
    /\ UNCHANGED <<heapIn, frameCall, cmpVars, filterVars, scoreVars, sessionVars, errorVars, scanVars, valueVars, ragVars, gatherVars, streamVars>>

NextFrame == FrameFilter \/ FrameCompare

SpecFrame == InitFrame /\ [][NextFrame]_vars

\* the cells of the values given to the call
InputCells == 1..Len(heapIn)

\* v consists of cells made by the call and holds what filtering the input
\* value from leaves of it
FreshFiltered(v, from) ==
    /\ Reach(heap, v) \cap InputCells = {}
    /\ Load(heap, v) = removeIgnoredFields(Load(heapIn, from), frameCall.cfg.ignoreFields,
                                           frameCall.cfg.ignorePatterns, <<>>)

\* C22: removeIgnoredFields and compareWorkflowLogs never modify their
\* inputs: after the call every input record, at every depth, and both input
\* sequences hold the keys, values and order they held before, and every
\* mapping and array of a filtered result is a cell made by the call, never
\* a cell of the input.
C22_InputsNotModified ==
    pc = "done" /\ frameCall # Undef =>
       /\ \A a \in InputCells : heap[a] = heapIn[a]
       /\ frameCall.op = "removeIgnoredFields" =>
             FreshFiltered(frameOut, frameCall.obj)
       /\ frameCall.op = "compareWorkflowLogs" =>
             \A j \in 1..Len(frameOut.logDifferences) :
                LET d == frameOut.logDifferences[j]
                IN  /\ FreshFiltered(d.blueLog, At(heapIn[frameCall.blueLogs.a].e, d.index))
                    /\ FreshFiltered(d.greenLog, At(heapIn[frameCall.greenLogs.a].e, d.index))

\* removeIgnoredFields with nothing to remove on a record of three nested
\* mappings: three new cells that hold what the three input cells hold
C22_Witness ==
    /\ pc = "done"
    /\ frameCall # Undef
    /\ frameCall.op = "removeIgnoredFields"
    /\ frameCall.cfg = NoConfig
    /\ Len(heapIn) = 3
    /\ Len(heap) = 6
    /\ Load(heap, frameOut) = Load(heapIn, frameCall.obj)
    /\ frameOut # frameCall.obj

\* compareWorkflowLogs retains filtered copies of a mismatched pair
C22_WitnessCompare ==
    /\ pc = "done"
    /\ frameCall # Undef
    /\ frameCall.op = "compareWorkflowLogs"
    /\ Len(frameOut.logDifferences) = 2
    /\ frameCall.cfg.ignoreFields = <<P("timestamp")>>

---------------------------------------------------------------------------
(* extractErrorEntries, ragAnalyzer.js:679-720, and the error section of   *)
(* summarizeLogs, lines 579-649.  Positions in logs count from 0, as in    *)
(* the source.                                                             *)

SortOrderUnstable(scores) ==
    LET Before(j, k) == scores[j].n > scores[k].n \/ (scores[j].n = scores[k].n /\ j > k)
    IN  [r \in 1..Len(scores) |->
           CHOOSE j \in 1..Len(scores) :
              Cardinality({k \in 1..Len(scores) : Before(k, j)}) = r - 1]

\* xs.sort((a, b) => b.score - a.score), given the scores of xs: the
\* positions of xs in the order the sort leaves. Array.prototype.sort is
\* stable: elements that compare equal keep their order.
SortOrder(scores) ==
    LET Before(j, k) == scores[j].n > scores[k].n \/ (scores[j].n = scores[k].n /\ j < k)
    IN  [r \in 1..Len(scores) |->
           CHOOSE j \in 1..Len(scores) :
              Cardinality({k \in 1..Len(scores) : Before(k, j)}) = r - 1]

\* xs in the order given by positions
Reorder(xs, order) == [r \in 1..Len(order) |-> xs[order[r]]]

\* categoryStats[primaryCategory] = (categoryStats[primaryCategory] || 0) + 1,
\* line 697; categoryStats = the properties in insertion order
CountCategory(categoryStats, primaryCategory) ==
    IF \E j \in 1..Len(categoryStats) : categoryStats[j].category = primaryCategory
    THEN [j \in 1..Len(categoryStats) |->
            IF categoryStats[j].category = primaryCategory
            THEN [categoryStats[j] EXCEPT !.count = @ + 1] ELSE categoryStats[j]]
    ELSE Append(categoryStats, [category |-> primaryCategory, count |-> 1])

\* lines 686-709: what the callback of logs.forEach pushes for logs[i]
ErrorEntry(log, i, analysis) ==
    [index |-> i + 1,
     csvLineNumber |-> OrElse(Prop(log, P("_csvLineNumber")), Num(i + 2)),
     logFilePath |-> OrElse(OrElse(OptProp(OptProp(Prop(log, P("log")), P("file")), P("path")),
                                   Prop(log, <<Seg("log"), Seg("file"), Seg("path")>>)),
                            Str("unknown")),
     category |-> OrElse(At(analysis.categories, 0), Str("GENERAL_ERROR")),
     confidence |-> analysis.confidence,
     score |-> analysis.score,
     excerpt |-> OrElse(Prop(log, P("message")), Str("")),
     reasons |-> SubSeq(analysis.reasons, 1, Min2(3, Len(analysis.reasons)))]

RECURSIVE ErrorLoop(_, _, _)
\* logs.forEach, lines 683-711, from position i on: [threw, errors,
\* categoryStats]
ErrorLoop(logs, i, acc) ==
    IF i >= Len(logs) \/ acc.threw THEN acc
    ELSE LET log == At(logs, i)
             analysis == analyzeLogForErrors(log)
         IN  IF analysis = Thrown THEN [acc EXCEPT !.threw = TRUE]
             ELSE IF analysis.isError
             THEN ErrorLoop(logs, i + 1,
                     [threw |-> FALSE,
                      errors |-> Append(acc.errors, ErrorEntry(log, i, analysis)),
                      categoryStats |-> CountCategory(acc.categoryStats,
                                           OrElse(At(analysis.categories, 0),
                                                  Str("GENERAL_ERROR")))])
             ELSE ErrorLoop(logs, i + 1, acc)

\* extractErrorEntries, lines 679-720; Thrown when analyzeLogForErrors throws
extractErrorEntries(logs) ==
    LET loop == ErrorLoop(logs, 0, [threw |-> FALSE, errors |-> <<>>,
                                    categoryStats |-> <<>>])
        errors == Reorder(loop.errors,
                          SortOrder([j \in 1..Len(loop.errors) |-> loop.errors[j].score]))
        High(e) == e.confidence = "HIGH"
    IN  IF loop.threw THEN Thrown
        ELSE [entries |-> errors,
              stats |-> loop.categoryStats,
              totalErrors |-> Len(errors),
              highConfidenceCount |-> Len(SelectSeq(errors, High))]

\* summarizeLogs, lines 579-624: the error logs in the order of the error
\* section, each with what its line shows of the analysis, and the two
\* counts of the header; Thrown when analyzeLogForErrors throws. The text of
\* the lines and its truncation, which keeps the error section whole (lines
\* 635-647), are left out.
summarizeLogsErrors(logs) ==
    LET analyzedLogs == [j \in 1..Len(logs) |->
                            [log |-> logs[j], index |-> j - 1,
                             analysis |-> analyzeLogForErrors(logs[j])]]
        IsErr(e) == e.analysis.isError
        filtered == SelectSeq(analyzedLogs, IsErr)
        errorLogs == Reorder(filtered,
                             SortOrder([j \in 1..Len(filtered) |-> filtered[j].analysis.score]))
        High(e) == e.analysis.confidence = "HIGH"
    IN  IF \E j \in 1..Len(logs) : analyzedLogs[j].analysis = Thrown THEN Thrown
        ELSE [found |-> Len(errorLogs),
              highConfidence |-> Len(SelectSeq(errorLogs, High)),
              lines |-> [j \in 1..Len(errorLogs) |->
                           [index |-> errorLogs[j].index + 1,
                            category |-> OrElse(At(errorLogs[j].analysis.categories, 0),
                                                Str("ISSUE")),
                            confidence |-> errorLogs[j].analysis.confidence]]]

\* the longest sequence of logs
MaxLogs == 3

\* the records of the sequences: two different records that score 80, two
\* that score 40, one of 56, one that is no error and one whose message is
\* a number
ErrorRecords ==
    { Obj(<<KV(P("message"), Str("ok")), KV(P("level"), Str("error"))>>),
      Obj(<<KV(P("level"), Str("error"))>>),
      Obj(<<KV(P("message"), Str("process crashed"))>>),
      Obj(<<KV(P("message"), Str("process crashed")),
            KV(P("log"), Obj(<<KV(P("file"), Obj(<<KV(P("path"), Str("svc.log"))>>))>>))>>),
      Obj(<<KV(P("message"), Str("connection refused"))>>),
      Obj(<<KV(P("message"), Str("ok"))>>),
      Obj(<<KV(P("message"), Num(404))>>) }

InitErrors ==
    /\ ecall \in [op : {"extractErrorEntries", "summarizeLogs"},
                  logs : SeqsUpTo(ErrorRecords, MaxLogs)]
    /\ eout = Undef
    /\ CompareIdle
    /\ FilterIdle
    /\ ScoreIdle
    /\ SessionIdle
    /\ FrameIdle
    /\ ScanIdle
    /\ ValuesIdle
    /\ RagIdle
    /\ GatherIdle
    /\ StreamIdle
    /\ pc = "call"

\* extractErrorEntries(logs)
ExtractErrorEntriesCall ==
    /\ pc = "call"
    /\ ecall.op = "extractErrorEntries"
    /\ eout' = extractErrorEntries(ecall.logs)
    /\ pc' = IF eout' = Thrown THEN "raised" ELSE "done"
    /\ UNCHANGED <<ecall, cmpVars, filterVars, scoreVars, sessionVars, frameVars, scanVars, valueVars, ragVars, gatherVars, streamVars>>

\* summarizeLogs(logs)
SummarizeLogsCall ==
    /\ pc = "call"
    /\ ecall.op = "summarizeLogs"
    /\ eout' = summarizeLogsErrors(ecall.logs)
    /\ pc' = IF eout' = Thrown THEN "raised" ELSE "done"
    /\ UNCHANGED <<ecall, cmpVars, filterVars, scoreVars, sessionVars, frameVars, scanVars, valueVars, ragVars, gatherVars, streamVars>>

NextErrors == ExtractErrorEntriesCall \/ SummarizeLogsCall

SpecErrors == InitErrors /\ [][NextErrors]_vars

\* the positions (from 1) of the records of the call that are errors
ErrorPositions ==
    {j \in 1..Len(ecall.logs) : analyzeLogForErrors(ecall.logs[j]).isError}

\* the listed entries es, each with the position index of its record, are in
\* descending order of the scores of their records, equal scores in the
\* order of the positions
SortedStable(es) ==
    \A j \in 1..Len(es) : \A k \in 1..Len(es) :
       j < k =>
          LET sj == analyzeLogForErrors(ecall.logs[es[j].index]).score.n
              sk == analyzeLogForErrors(ecall.logs[es[k].index]).score.n
          IN  sj > sk \/ (sj = sk /\ es[j].index < es[k].index)

\* C23: extractErrorEntries and the error section of summarizeLogs list
\* exactly the records with isError true, by descending score, records of
\* equal score in their original order; totalErrors is the number of these
\* records, highConfidenceCount the number of them with confidence HIGH, and
\* the category histogram counts every error once, under its first category,
\* so that its counts sum to totalErrors.
C23_ErrorsListedByScore ==
    pc = "done" /\ ecall # Undef =>
       LET es == IF ecall.op = "extractErrorEntries" THEN eout.entries ELSE eout.lines
           PrimaryOf(j) == analyzeLogForErrors(ecall.logs[j]).categories[1]
           HighPositions ==
              {j \in ErrorPositions :
                  analyzeLogForErrors(ecall.logs[j]).confidence = "HIGH"}
       IN  /\ Len(es) = Cardinality(ErrorPositions)
           /\ {es[j].index : j \in 1..Len(es)} = ErrorPositions
           /\ SortedStable(es)
           /\ \A j \in 1..Len(es) :
                 /\ es[j].category = PrimaryOf(es[j].index)
                 /\ es[j].confidence = analyzeLogForErrors(ecall.logs[es[j].index]).confidence
           /\ ecall.op = "extractErrorEntries" =>
                 /\ eout.totalErrors = Cardinality(ErrorPositions)
                 /\ eout.highConfidenceCount = Cardinality(HighPositions)
                 /\ \A j \in 1..Len(es) :
                       es[j].score = analyzeLogForErrors(ecall.logs[es[j].index]).score
                 /\ \A j \in 1..Len(eout.stats) : \A k \in 1..Len(eout.stats) :
                       j # k => eout.stats[j].category # eout.stats[k].category
                 /\ \A j \in 1..Len(eout.stats) :
                       eout.stats[j].count =
                          Cardinality({p \in ErrorPositions :
                                          PrimaryOf(p) = eout.stats[j].category})
                 /\ {eout.stats[j].category : j \in 1..Len(eout.stats)}
                       = {PrimaryOf(p) : p \in ErrorPositions}
                 /\ SumOver(1..Len(eout.stats),
                            [j \in 1..Len(eout.stats) |-> eout.stats[j].count])
                       = eout.totalErrors
           /\ ecall.op = "summarizeLogs" =>
                 /\ eout.found = Cardinality(ErrorPositions)
                 /\ eout.highConfidence = Cardinality(HighPositions)

\* scores 40, 80, 80 from two different records of score 80: the entries
\* come out as positions 2, 3, 1
C23_Witness ==
    /\ pc = "done"
    /\ ecall # Undef
    /\ ecall.op = "extractErrorEntries"
    /\ ecall.logs = << Obj(<<KV(P("message"), Str("process crashed"))>>),
                       Obj(<<KV(P("level"), Str("error"))>>),
                       Obj(<<KV(P("message"), Str("ok")), KV(P("level"), Str("error"))>>) >>
    /\ [j \in 1..3 |-> eout.entries[j].index] = <<2, 3, 1>>
    /\ eout.totalErrors = 3
    /\ eout.highConfidenceCount = 2
    /\ eout.stats = << [category |-> Str("GENERAL_ERROR"), count |-> 1],
                       [category |-> Str("ERROR"), count |-> 2] >>

\* the same logs in summarizeLogs
C23_WitnessSummary ==
    /\ pc = "done"
    /\ ecall # Undef
    /\ ecall.op = "summarizeLogs"
    /\ Len(ecall.logs) = 3
    /\ Len(eout.lines) = 3
    /\ [j \in 1..3 |-> eout.lines[j].index] = <<2, 3, 1>>
    /\ eout.highConfidence = 2

\* ---------------------------------------------------------------------------
\* extractKeyValuePairs match by match, ragAnalyzer.js:781-813
\* ---------------------------------------------------------------------------

\* the number of records of one scan
MaxScan == 3

\* the records scanned
ScanRecords ==
    { Obj(<<KV(P("message"), Str(m))>>) : m \in KvMessages \cup {"user: alice", "user: null", "status = failed"} }
      \cup { Obj(<<KV(P("message"), Num(404))>>), Obj(<<KV(P("level"), Str("info"))>>) }

\* the matches of the four patterns on the records, in the order of the loops
\* of lines 781-808
RECURSIVE Observations(_)
Observations(logs) ==
    IF logs = <<>> THEN <<>>
    ELSE KvMatches(ToStringOf(OrElse(Prop(Head(logs), P("message")), Str(""))))
            \o Observations(Tail(logs))

\* the key of line 789 is stored (line 791 does not skip it)
Stored(match) == ~(match.len < 3 \/ match.key \in {"the", "and", "for", "with"})

InitScan ==
    /\ scanLogs \in UNION { [1..n -> ScanRecords] : n \in 0..MaxScan }
    /\ scanPos = 0
    /\ scanMap = <<>>
    /\ scanOut = Undef
    /\ CompareIdle
    /\ FilterIdle
    /\ ScoreIdle
    /\ SessionIdle
    /\ FrameIdle
    /\ ErrorsIdle
    /\ ValuesIdle
    /\ RagIdle
    /\ GatherIdle
    /\ StreamIdle
    /\ pc = "scan"

\* one iteration of the while loop of line 787
ScanMatch ==
    /\ pc = "scan"
    /\ scanPos < Len(Observations(scanLogs))
    /\ scanMap' = KvStore(scanMap, Observations(scanLogs)[scanPos + 1])
    /\ scanPos' = scanPos + 1
    /\ UNCHANGED <<scanLogs, scanOut, pc, valueVars, ragVars, gatherVars, streamVars>>
    /\ UNCHANGED <<cmpVars, filterVars, scoreVars, sessionVars, frameVars, errorVars, valueVars, ragVars, gatherVars, streamVars>>

\* line 813
ScanReturn ==
    /\ pc = "scan"
    /\ scanPos = Len(Observations(scanLogs))
    /\ scanOut' = [t |-> "map", e |-> scanMap]
    /\ pc' = "done"
    /\ UNCHANGED <<scanLogs, scanPos, scanMap, valueVars, ragVars, gatherVars, streamVars>>
    /\ UNCHANGED <<cmpVars, filterVars, scoreVars, sessionVars, frameVars, errorVars, valueVars, ragVars, gatherVars, streamVars>>

NextScan == ScanMatch \/ ScanReturn

SpecScan == InitScan /\ [][NextScan]_vars

\* the matches handled so far whose key is key
Observed(key) ==
    SelectSeq(SubSeq(Observations(scanLogs), 1, scanPos),
              LAMBDA m : Stored(m) /\ m.key = key)

\* the entry of key in a map, Undef without one
EntryOf(kvMap, key) ==
    IF KvIndex(kvMap, key) = 0 THEN Undef ELSE kvMap[KvIndex(kvMap, key)]

ScanKeys == {"user", "status", "name", "id", "for"}

\* the values of a sequence of matches that are valid
ValidOf(matches) == SelectSeq(matches, LAMBDA m : ~isNullOrErrorValue(m.value))

\* the entry of key is what the matches handled so far make it
EntryAsObserved(key) ==
    LET seen == Observed(key)
        entry == EntryOf(scanMap, key)
    IN  IF seen = <<>> THEN entry = Undef
        ELSE /\ entry # Undef
             /\ entry.count = Len(seen)
             /\ entry.isInvalid = (ValidOf(seen) = <<>>)
             /\ entry.value = IF ValidOf(seen) = <<>> THEN seen[1].value
                              ELSE ValidOf(seen)[1].value

\* a step of the scan leaves a valid entry as it is and never makes one invalid
EntryStep(key) ==
    LET before == EntryOf(scanMap, key)
        after == EntryOf(scanMap', key)
    IN  /\ before # Undef => after # Undef
        /\ (before # Undef /\ ~before.isInvalid) =>
              (~after.isInvalid /\ after.value = before.value)
        /\ (before # Undef /\ before.isInvalid /\ after.isInvalid) =>
              after.value = before.value

\* C24: during a scan the entry of a key changes only from invalid to valid,
\* a valid value once stored is kept to the end, and the entry is valid iff a
\* valid value was observed for the key, its value then being the first valid
\* one in scan order and its count the number of observations of the key
C24_ValidValueRetained ==
    /\ [](\A key \in ScanKeys : EntryAsObserved(key))
    /\ [][\A key \in ScanKeys : EntryStep(key)]_vars
    /\ [](scanOut # Undef => scanOut.e = scanMap /\ scanPos = Len(Observations(scanLogs)))

\* a scan that met an invalid value, then a valid one, then another valid one
\* for the key user has returned
C24_Witness ==
    /\ pc = "done"
    /\ scanOut # Undef
    /\ Len(Observed("user")) = 3
    /\ isNullOrErrorValue(Observed("user")[1].value)
    /\ Observed("user")[2].value = "alice"
    /\ Observed("user")[3].value = "bob"
    /\ EntryOf(scanOut.e, "user") = [key |-> "user", value |-> "alice", isInvalid |-> FALSE, count |-> 3]

\* ---------------------------------------------------------------------------
\* compareLogValues, ragAnalyzer.js:840-883
\* ---------------------------------------------------------------------------

\* lines 852-870 with the two types exchanged
DivergenceTypeSwapped(blueData, greenData) ==
    IF greenData = Undef THEN ""
    ELSE IF ~blueData.isInvalid /\ greenData.isInvalid THEN "BLUE_INVALID"
    ELSE IF blueData.isInvalid /\ ~greenData.isInvalid THEN "GREEN_INVALID"
    ELSE ""

\* lines 850-870: the type of the divergence pushed for a key of blueKV, ""
\* when none is pushed; greenData is Undef when greenKV has no such key
DivergenceType(blueData, greenData) ==
    IF greenData = Undef THEN ""
    ELSE IF ~blueData.isInvalid /\ greenData.isInvalid THEN "GREEN_INVALID"
    ELSE IF blueData.isInvalid /\ ~greenData.isInvalid THEN "BLUE_INVALID"
    ELSE ""

\* lines 847-872: the loop over the entries of blueKV from entry j on
RECURSIVE DivergenceLoop(_, _, _, _)
DivergenceLoop(blueKV, greenKV, j, divergences) ==
    IF j > Len(blueKV) THEN divergences
    ELSE LET blueData == blueKV[j]
             greenData == IF KvIndex(greenKV, blueData.key) = 0 THEN Undef
                          ELSE greenKV[KvIndex(greenKV, blueData.key)]
             type == DivergenceType(blueData, greenData)
         IN  DivergenceLoop(blueKV, greenKV, j + 1,
                IF type = "" THEN divergences
                ELSE Append(divergences,
                        [field |-> blueData.key,
                         blueValue |-> blueData.value,
                         greenValue |-> greenData.value,
                         type |-> type,
                         severity |-> "HIGH"]))

\* compareLogValues, lines 840-883 (the description text of a divergence is
\* left out); the sort of line 875 puts severity HIGH first
compareLogValues(blue, green) ==
    LET blueKV == extractKeyValuePairs(blue)
        greenKV == extractKeyValuePairs(green)
    IN  IF blueKV = Thrown \/ greenKV = Thrown THEN Thrown
        ELSE LET pushed == DivergenceLoop(blueKV.e, greenKV.e, 1, <<>>)
                 divergences ==
                    Reorder(pushed,
                            SortOrder([j \in 1..Len(pushed) |->
                                         Num(IF pushed[j].severity = "HIGH" THEN 1 ELSE 0)]))
             IN  [divergences |-> divergences,
                  count |-> Len(divergences),
                  hasRegressions |-> \E j \in 1..Len(divergences) : divergences[j].type = "GREEN_INVALID",
                  hasImprovements |-> \E j \in 1..Len(divergences) : divergences[j].type = "BLUE_INVALID"]

\* the number of records of one colour
MaxValueLogs == 2

\* the records compared
ValueRecords ==
    { Obj(<<KV(P("message"), Str(m))>>) :
        m \in {"user: alice", "user: null", "user: bob", "status = failed",
               "status: ok user: null", "name: Nancy", "id: 7"} }
      \cup { Null }

InitValues ==
    /\ vcall \in [op : {"compareLogValues"},
                  blueLogs : SeqsUpTo(ValueRecords, MaxValueLogs),
                  greenLogs : SeqsUpTo(ValueRecords, MaxValueLogs)]
    /\ vout = Undef
    /\ CompareIdle
    /\ FilterIdle
    /\ ScoreIdle
    /\ SessionIdle
    /\ FrameIdle
    /\ ErrorsIdle
    /\ ScanIdle
    /\ RagIdle
    /\ GatherIdle
    /\ StreamIdle
    /\ pc = "call"

\* compareLogValues(blueLogs, greenLogs) returns
CompareLogValuesReturns ==
    /\ pc = "call"
    /\ compareLogValues(vcall.blueLogs, vcall.greenLogs) # Thrown
    /\ vout' = compareLogValues(vcall.blueLogs, vcall.greenLogs)
    /\ pc' = "done"
    /\ UNCHANGED <<vcall, cmpVars, filterVars, scoreVars, sessionVars, frameVars, errorVars, scanVars, ragVars, gatherVars, streamVars>>

\* log.message of a record that is null raises a TypeError (line 782)
CompareLogValuesThrows ==
    /\ pc = "call"
    /\ compareLogValues(vcall.blueLogs, vcall.greenLogs) = Thrown
    /\ vout' = Thrown
    /\ pc' = "raised"
    /\ UNCHANGED <<vcall, cmpVars, filterVars, scoreVars, sessionVars, frameVars, errorVars, scanVars, ragVars, gatherVars, streamVars>>

NextValues == CompareLogValuesReturns \/ CompareLogValuesThrows

SpecValues == InitValues /\ [][NextValues]_vars

\* the matches of logs that are stored under key
ObservedIn(logs, key) ==
    SelectSeq(Observations(logs), LAMBDA m : Stored(m) /\ m.key = key)

\* key is extracted from logs
Extracted(logs, key) == ObservedIn(logs, key) # <<>>

\* the value retained for key is valid: some value observed for it is
RetainedValid(logs, key) == ValidOf(ObservedIn(logs, key)) # <<>>

\* the value retained for key: the first valid one, the first one without a
\* valid one
Retained(logs, key) ==
    IF RetainedValid(logs, key) THEN ValidOf(ObservedIn(logs, key))[1].value
    ELSE ObservedIn(logs, key)[1].value

\* the divergences reported for key
ReportedFor(key) ==
    {j \in 1..Len(vout.divergences) : vout.divergences[j].field = key}

\* what is to be reported for key: "" for nothing
Expected(key) ==
    LET blue == vcall.blueLogs
        green == vcall.greenLogs
    IN  IF ~(Extracted(blue, key) /\ Extracted(green, key)) THEN ""
        ELSE IF RetainedValid(blue, key) /\ ~RetainedValid(green, key) THEN "GREEN_INVALID"
        ELSE IF ~RetainedValid(blue, key) /\ RetainedValid(green, key) THEN "BLUE_INVALID"
        ELSE ""

\* C25: a divergence is reported for a key iff the key is extracted from both
\* colours and exactly one retained value is invalid, GREEN_INVALID when the
\* green one is and BLUE_INVALID when the blue one is; count is the number of
\* divergences, hasRegressions says that some is GREEN_INVALID and
\* hasImprovements that some is BLUE_INVALID
C25_DivergencesReported ==
    pc = "done" /\ vcall.op = "compareLogValues" =>
        /\ \A j \in 1..Len(vout.divergences) : vout.divergences[j].field \in ScanKeys
        /\ \A key \in ScanKeys :
              /\ Expected(key) = "" => ReportedFor(key) = {}
              /\ Expected(key) # "" =>
                    /\ Cardinality(ReportedFor(key)) = 1
                    /\ \A j \in ReportedFor(key) :
                          /\ vout.divergences[j].type = Expected(key)
                          /\ vout.divergences[j].blueValue = Retained(vcall.blueLogs, key)
                          /\ vout.divergences[j].greenValue = Retained(vcall.greenLogs, key)
        /\ vout.count = Len(vout.divergences)
        /\ vout.count = Cardinality({key \in ScanKeys : Expected(key) # ""})
        /\ vout.hasRegressions = (\E key \in ScanKeys : Expected(key) = "GREEN_INVALID")
        /\ vout.hasImprovements = (\E key \in ScanKeys : Expected(key) = "BLUE_INVALID")

\* a comparison that reports a regression for user and an improvement for
\* status, with name invalid in both colours
C25_Witness ==
    /\ pc = "done"
    /\ vcall.op = "compareLogValues"
    /\ vout.count = 2
    /\ vout.hasRegressions
    /\ vout.hasImprovements
    /\ Expected("user") = "GREEN_INVALID"
    /\ Expected("status") = "BLUE_INVALID"

\* a comparison where a key is in one colour only and nothing is reported
C25_WitnessOneColour ==
    /\ pc = "done"
    /\ vcall.op = "compareLogValues"
    /\ Extracted(vcall.blueLogs, "user")
    /\ ~Extracted(vcall.greenLogs, "user")
    /\ Extracted(vcall.greenLogs, "name")
    /\ vout.count = 0

\* ---------------------------------------------------------------------------
\* isNullOrErrorValue, ragAnalyzer.js:821-832
\* ---------------------------------------------------------------------------

\* the length of the values built from ValueChars
MaxChars == 3

\* the characters of those values
ValueChars == {"n", "a", "N", "/", " ", "x"}

\* longer values: tokens in other case or padded, values that begin with a
\* token, values that hold a token further on and values without one
ValueSpecimens ==
    { <<"N", "u", "l", "l">>,
      <<" ", "u", "n", "d", "e", "f", "i", "n", "e", "d", " ">>,
      <<"N", "a", "t", "i", "o", "n">>,
      <<"e", "r", "r", "o", "r", "l", "e", "s", "s">>,
      <<"u", "n", "a", "v", "a", "i", "l", "a", "b", "l", "e">>,
      <<"u", "n", "k", "n", "o", "w", "n", "U", "s", "e", "r">>,
      <<"o", "k">>,
      <<"a", "l", "i", "c", "e">>,
      <<"t", "r", "u", "e">>,
      <<"m", "y", " ", "e", "r", "r", "o", "r">>,
      <<"N", "/", "A">>,
      <<"a", "n", "a", "n">> }

InitInvalid ==
    /\ vcall \in [op : {"isNullOrErrorValue"},
                  value : SeqsUpTo(ValueChars, MaxChars) \cup ValueSpecimens]
    /\ vout = Undef
    /\ CompareIdle
    /\ FilterIdle
    /\ ScoreIdle
    /\ SessionIdle
    /\ FrameIdle
    /\ ErrorsIdle
    /\ ScanIdle
    /\ RagIdle
    /\ GatherIdle
    /\ StreamIdle
    /\ pc = "call"

\* isNullOrErrorValue(value)
IsNullOrErrorValueCall ==
    /\ pc = "call"
    /\ vout' = isNullOrErrorChars(vcall.value)
    /\ pc' = "done"
    /\ UNCHANGED <<vcall, cmpVars, filterVars, scoreVars, sessionVars, frameVars, errorVars, scanVars, ragVars, gatherVars, streamVars>>

NextInvalid == IsNullOrErrorValueCall

SpecInvalid == InitInvalid /\ [][NextInvalid]_vars

\* the positions of value that hold no white space
Inked(value) == {j \in 1..Len(value) : value[j] \notin WhiteSpace}

\* value without the white space around it begins, in any case of its
\* letters, with the token
BeginsWith(value, token) ==
    /\ Inked(value) # {}
    /\ LET first == CHOOSE j \in Inked(value) : \A k \in Inked(value) : j <= k
           last == CHOOSE j \in Inked(value) : \A k \in Inked(value) : k <= j
       IN  /\ first + Len(token) - 1 <= last
           /\ \A k \in 1..Len(token) : LowerChar(value[first + k - 1]) = token[k]

\* C26: a value is invalid iff it is empty or its trimmed, lower-cased form
\* equals or begins with a token of the list; every other value is valid
C26_InvalidIffTokenPrefix ==
    pc = "done" /\ vcall.op = "isNullOrErrorValue" =>
        vout = (\/ vcall.value = <<>>
                \/ \E j \in 1..Len(nullIndicators) : BeginsWith(vcall.value, nullIndicators[j]))

\* a value that merely begins with the token na was classified invalid
C26_Witness ==
    /\ pc = "done"
    /\ vcall.op = "isNullOrErrorValue"
    /\ vcall.value = <<"N", "a", "t", "i", "o", "n">>
    /\ vout = TRUE

\* a value that holds a token further on was classified valid
C26_WitnessValid ==
    /\ pc = "done"
    /\ vcall.op = "isNullOrErrorValue"
    /\ vcall.value = <<"m", "y", " ", "e", "r", "r", "o", "r">>
    /\ vout = FALSE

\* ---------------------------------------------------------------------------
\* performRagAnalysis, ragAnalyzer.js:1066-1186, with checkOllamaAvailability
\* and generateCompletion, ollamaClient.js:14-98
\* ---------------------------------------------------------------------------

\* an Error object with its message
Raise(message) == [t |-> "error", message |-> message]

\* names of models, by their characters
Llama3_8b == <<"l", "l", "a", "m", "a", "3", ":", "8", "b">>
Llama3_70b == <<"l", "l", "a", "m", "a", "3", ":", "7", "0", "b">>
Phi3 == <<"p", "h", "i", "3">>
Mistral == <<"m", "i", "s", "t", "r", "a", "l">>

\* model.split(':')[0], ollamaClient.js:27
SplitFirst(value, sep) ==
    IF \E j \in 1..Len(value) : value[j] = sep
    THEN SubSeq(value, 1, (CHOOSE j \in 1..Len(value) :
                              value[j] = sep /\ \A k \in 1..(j - 1) : value[k] # sep) - 1)
    ELSE value

\* how a fetch can end: connection refused, another failure, a response with
\* its ok flag and the outcome of response.json() or response.text()
Reply(kind, ok, body) == [kind |-> kind, ok |-> ok, body |-> body]

\* the replies to GET /api/tags
TagReplies ==
    { Reply("refused", FALSE, Undef), Reply("failed", FALSE, Undef),
      Reply("response", FALSE, Undef), Reply("response", TRUE, Thrown),
      Reply("response", TRUE, [models |-> Undef]) }
      \cup { Reply("response", TRUE, [models |-> Arr(ms)]) :
                ms \in {<<>>, <<Llama3_8b>>, <<Phi3, Llama3_70b>>, <<Phi3>>} }

\* checkOllamaAvailability, ollamaClient.js:14-45
checkOllamaAvailability(model, reply) ==
    IF reply.kind = "refused"
    THEN [available |-> FALSE, error |-> "Ollama is not running. Start it with: ollama serve"]
    ELSE IF reply.kind = "failed"
    THEN [available |-> FALSE, error |-> "Failed to connect to Ollama: fetch failed"]
    ELSE IF ~reply.ok
    THEN [available |-> FALSE, error |-> "Ollama API is not responding"]
    ELSE IF reply.body = Thrown
    THEN [available |-> FALSE, error |-> "Failed to connect to Ollama: Unexpected token"]
    ELSE LET models == IF reply.body.models = Undef THEN <<>> ELSE reply.body.models.e
             modelAvailable ==
                \E j \in 1..Len(models) :
                    models[j] = model \/ startsWith(models[j], SplitFirst(model, ":"))
         IN  IF ~modelAvailable
             THEN [available |-> FALSE, error |-> "Model not found. Available models: "]
             ELSE [available |-> TRUE, error |-> ""]

\* the replies to POST /api/generate
GenerateReplies ==
    { Reply("refused", FALSE, Undef), Reply("failed", FALSE, Undef),
      Reply("response", FALSE, Str("model runner has stopped")),
      Reply("response", TRUE, Thrown),
      Reply("response", TRUE, [response |-> Str("The workflows differ.")]),
      Reply("response", TRUE, [response |-> Undef]) }

\* generateCompletion, ollamaClient.js:58-98: the text returned or the error
\* thrown
generateCompletion(reply) ==
    IF reply.kind = "refused" THEN Raise("Ollama is not running. Start it with: ollama serve")
    ELSE IF reply.kind = "failed" THEN Raise("fetch failed")
    ELSE IF ~reply.ok THEN Raise("Ollama API error: ")
    ELSE IF reply.body = Thrown THEN Raise("Unexpected token")
    ELSE reply.body.response

\* extractLogPatterns (repoContextGatherer.js) throws: log.message.match of a
\* truthy message that is no string
extractLogPatternsThrows(logs) ==
    \E j \in 1..Len(logs) :
        LET message == Prop(logs[j], P("message"))
        IN  message.t \in {"obj", "arr"} \/ (message.t = "num" /\ message.n # 0)

\* buildAnalysisPrompt, lines 919-1057: the prompt, of which the model keeps
\* the relevant files, or the error one of its made throws
buildAnalysisPrompt(blue, green, repoContext, relevantFiles) ==
    IF \/ summarizeLogsErrors(blue) = Thrown
       \/ summarizeLogsErrors(green) = Thrown
       \/ extractErrorEntries(blue) = Thrown
       \/ compareLogValues(blue, green) = Thrown
       \/ extractErrorEntries(green) = Thrown
    THEN Raise("message.toLowerCase is not a function")
    ELSE [t |-> "prompt", repoContext |-> repoContext, relevantFiles |-> relevantFiles]

\* the largest reading of the clock
MaxClock == 2

\* the logs of a run: none, one plain record, one whose message is a number
RagLogs ==
    { <<>>,
      <<Obj(<<KV(P("message"), Str("process crashed"))>>)>>,
      <<Obj(<<KV(P("message"), Num(404))>>)>> }

\* a call of the run and its outcome
Call(fn, outcome) == [fn |-> fn, outcome |-> outcome]

\* the calls made, with the outcome of the last one set
Settle(made, outcome) == [made EXCEPT ![Len(made)].outcome = outcome]

\* lines 1178-1180 without the assignment to result.error
CatchDropsError(result, error) == result

\* lines 1178-1180: catch (error) { result.error = error.message }
Catch(result, error) == [result EXCEPT !.error = Str(error.message)]

\* lines 1182-1185: the result returned
Finish(result) ==
    [result EXCEPT !.metadata.endTime = Num(clock),
                   !.metadata.durationMs = Num(clock - result.metadata.startTime.n)]

InitRag ==
    /\ ragIn \in [blueLogs : RagLogs, greenLogs : RagLogs, model : {Llama3_8b, Mistral}]
    /\ ragResult = Undef
    /\ ragLocal = Undef
    /\ ragCalls = <<>>
    /\ ragSettled = Undef
    /\ clock = 0
    /\ CompareIdle
    /\ FilterIdle
    /\ ScoreIdle
    /\ SessionIdle
    /\ FrameIdle
    /\ ErrorsIdle
    /\ ScanIdle
    /\ ValuesIdle
    /\ GatherIdle
    /\ StreamIdle
    /\ pc = "start"

\* time passes while a call is awaited
Tick ==
    /\ pc \in {"checking", "gathering", "finding", "completing"}
    /\ clock < MaxClock
    /\ clock' = clock + 1
    /\ UNCHANGED <<ragIn, ragResult, ragLocal, ragCalls, ragSettled, pc, gatherVars, streamVars>>
    /\ UNCHANGED <<cmpVars, filterVars, scoreVars, sessionVars, frameVars, errorVars, scanVars, valueVars, gatherVars, streamVars>>

\* lines 1066-1093: the result object is created and the availability check
\* is called
RagStart ==
    /\ pc = "start"
    /\ ragResult' = [success |-> FALSE, analysis |-> Null, prompt |-> Null, error |-> Null,
                     metadata |-> [model |-> ragIn.model, startTime |-> Num(clock),
                                   endTime |-> Null, durationMs |-> Undef,
                                   repoContextUsed |-> FALSE, relevantFilesCount |-> 0]]
    /\ ragLocal' = [repoContext |-> Null, relevantFiles |-> <<>>]
    /\ ragCalls' = <<Call("checkOllamaAvailability", "pending")>>
    /\ pc' = "checking"
    /\ UNCHANGED <<ragIn, ragSettled, clock, gatherVars, streamVars>>
    /\ UNCHANGED <<cmpVars, filterVars, scoreVars, sessionVars, frameVars, errorVars, scanVars, valueVars, gatherVars, streamVars>>

\* lines 1093-1109: the availability check settles; unavailable is thrown
\* and caught at line 1178, available goes on to gatherRepositoryContext
CheckSettles ==
    /\ pc = "checking"
    /\ \E reply \in TagReplies :
          LET ollamaCheck == checkOllamaAvailability(ragIn.model, reply)
          IN  IF ~ollamaCheck.available
              THEN /\ ragCalls' = Settle(ragCalls, "unavailable")
                   /\ ragResult' = Finish(Catch(ragResult, Raise(ollamaCheck.error)))
                   /\ ragSettled' = [kind |-> "resolved", value |-> ragResult']
                   /\ pc' = "done"
              ELSE /\ ragCalls' = Append(Settle(ragCalls, "available"),
                                         Call("gatherRepositoryContext", "pending"))
                   /\ UNCHANGED <<ragResult, ragSettled, gatherVars, streamVars>>
                   /\ pc' = "gathering"
    /\ UNCHANGED <<ragIn, ragLocal, clock, gatherVars, streamVars>>
    /\ UNCHANGED <<cmpVars, filterVars, scoreVars, sessionVars, frameVars, errorVars, scanVars, valueVars, gatherVars, streamVars>>

\* lines 1143-1180: what follows the call of buildAnalysisPrompt, given the
\* prompt it returned or the error it threw, which the catch of line 1178
\* handles
PromptOutcome(result, made, prompt) ==
    IF prompt.t = "error"
    THEN [result |-> Finish(Catch(result, prompt)),
          made |-> Append(made, Call("buildAnalysisPrompt", "threw")),
          settled |-> [kind |-> "resolved", value |-> Finish(Catch(result, prompt))],
          pc |-> "done"]
    ELSE [result |-> [result EXCEPT !.prompt = prompt],
          made |-> made \o <<Call("buildAnalysisPrompt", "returned"),
                              Call("generateCompletion", "pending")>>,
          settled |-> Undef,
          pc |-> "completing"]

\* lines 1133-1170: the prompt is built from the logs, repoContext and
\* relevantFiles, and the completion requested
PromptStep(result, local, made) ==
    CHOOSE next \in { PromptOutcome(result, made, prompt) :
                         prompt \in { buildAnalysisPrompt(ragIn.blueLogs, ragIn.greenLogs,
                                                          local.repoContext,
                                                          local.relevantFiles) } } : TRUE

\* lines 1105-1121: gatherRepositoryContext settles; when it returns,
\* extractLogPatterns runs and findRelevantFiles is called; a failure of
\* either is caught at line 1127 and the prompt is built
GatherSettles ==
    /\ pc = "gathering"
    /\ \E returned \in BOOLEAN :
          IF returned /\ ~extractLogPatternsThrows(ragIn.blueLogs \o ragIn.greenLogs)
          THEN /\ ragLocal' = [ragLocal EXCEPT !.repoContext = Str("context")]
               /\ ragResult' = [ragResult EXCEPT !.metadata.repoContextUsed = TRUE]
               /\ ragCalls' = Settle(ragCalls, "returned")
                                 \o <<Call("extractLogPatterns", "returned"),
                                      Call("findRelevantFiles", "pending")>>
               /\ pc' = "finding"
               /\ UNCHANGED ragSettled
          ELSE LET local == IF returned
                            THEN [ragLocal EXCEPT !.repoContext = Str("context")]
                            ELSE ragLocal
                   result == IF returned
                             THEN [ragResult EXCEPT !.metadata.repoContextUsed = TRUE]
                             ELSE ragResult
                   made == IF returned
                            THEN Append(Settle(ragCalls, "returned"),
                                        Call("extractLogPatterns", "threw"))
                            ELSE Settle(ragCalls, "threw")
               IN  \E next \in {PromptStep(result, local, made)} :
                      /\ ragLocal' = local
                      /\ ragResult' = next.result
                      /\ ragCalls' = next.made
                      /\ ragSettled' = next.settled
                      /\ pc' = next.pc
    /\ UNCHANGED <<ragIn, clock, gatherVars, streamVars>>
    /\ UNCHANGED <<cmpVars, filterVars, scoreVars, sessionVars, frameVars, errorVars, scanVars, valueVars, gatherVars, streamVars>>

\* the files findRelevantFiles can return
FoundFiles == {<<>>, <<"deploy.yml">>, <<"deploy.yml", "worker.js">>}

\* lines 1121-1131: findRelevantFiles settles; a failure is caught at line
\* 1127 and leaves relevantFiles empty; the prompt is built
FindSettles ==
    /\ pc = "finding"
    /\ \E returned \in BOOLEAN : \E files \in FoundFiles :
          LET local == IF returned THEN [ragLocal EXCEPT !.relevantFiles = files]
                       ELSE ragLocal
              result == IF returned
                        THEN [ragResult EXCEPT !.metadata.relevantFilesCount = Len(files)]
                        ELSE ragResult
              made == Settle(ragCalls, IF returned THEN "returned" ELSE "threw")
          IN  \E next \in {PromptStep(result, local, made)} :
                 /\ ragLocal' = local
                 /\ ragResult' = next.result
                 /\ ragCalls' = next.made
                 /\ ragSettled' = next.settled
                 /\ pc' = next.pc
    /\ UNCHANGED <<ragIn, clock, gatherVars, streamVars>>
    /\ UNCHANGED <<cmpVars, filterVars, scoreVars, sessionVars, frameVars, errorVars, scanVars, valueVars, gatherVars, streamVars>>

\* lines 1165-1185: generateCompletion settles and the run returns
CompletionSettles ==
    /\ pc = "completing"
    /\ \E reply \in GenerateReplies :
          LET analysis == generateCompletion(reply)
          IN  IF analysis.t = "error"
              THEN /\ ragCalls' = Settle(ragCalls, "threw")
                   /\ ragResult' = Finish(Catch(ragResult, analysis))
              ELSE /\ ragCalls' = Settle(ragCalls, "returned")
                   /\ ragResult' = Finish([ragResult EXCEPT !.analysis = analysis,
                                                            !.success = TRUE])
    /\ ragSettled' = [kind |-> "resolved", value |-> ragResult']
    /\ pc' = "done"
    /\ UNCHANGED <<ragIn, ragLocal, clock, gatherVars, streamVars>>
    /\ UNCHANGED <<cmpVars, filterVars, scoreVars, sessionVars, frameVars, errorVars, scanVars, valueVars, gatherVars, streamVars>>

NextRag == Tick \/ RagStart \/ CheckSettles \/ GatherSettles \/ FindSettles \/ CompletionSettles

SpecRag == InitRag /\ [][NextRag]_vars

\* the run has called fn with this outcome
Made(fn, outcome) == \E j \in 1..Len(ragCalls) : ragCalls[j] = Call(fn, outcome)

\* the run has called fn
Called(fn) == \E j \in 1..Len(ragCalls) : ragCalls[j].fn = fn

\* a value that is neither null nor undefined
NonNull(v) == v # Null /\ v # Undef

\* C27: performRagAnalysis never rejects; it resolves with a result whose
\* success is true iff the completion call returned, whose error is non-null
\* iff success is false, whose analysis is non-null only when success is
\* true, and whose metadata.endTime and durationMs are set
C27_AlwaysResolves ==
    /\ pc = "done" => ragSettled # Undef
    /\ ragSettled # Undef =>
          /\ ragSettled.kind = "resolved"
          /\ LET result == ragSettled.value
             IN  /\ result.success = Made("generateCompletion", "returned")
                 /\ NonNull(result.error) = ~result.success
                 /\ NonNull(result.analysis) => result.success
                 /\ NonNull(result.metadata.endTime)
                 /\ NonNull(result.metadata.durationMs)
                 /\ result.metadata.durationMs.n
                       = result.metadata.endTime.n - result.metadata.startTime.n

\* a run whose prompt building threw has resolved with the error
C27_Witness ==
    /\ pc = "done"
    /\ Made("buildAnalysisPrompt", "threw")
    /\ ragSettled.kind = "resolved"
    /\ ~ragSettled.value.success
    /\ ragSettled.value.error = Str("message.toLowerCase is not a function")
    /\ ragSettled.value.analysis = Null
    /\ ragSettled.value.metadata.durationMs = Num(2)

\* a run whose completion call returned has resolved with success
C27_WitnessSuccess ==
    /\ pc = "done"
    /\ Made("generateCompletion", "returned")
    /\ ragSettled.value.success
    /\ ragSettled.value.error = Null
    /\ ragSettled.value.analysis = Str("The workflows differ.")

\* a run whose availability check reported the model unavailable
C27_WitnessUnavailable ==
    /\ pc = "done"
    /\ Made("checkOllamaAvailability", "unavailable")
    /\ ~ragSettled.value.success
    /\ ragSettled.value.error = Str("Model not found. Available models: ")

\* the place of a call in the order of the steps
StepRank(fn) ==
    CASE fn = "checkOllamaAvailability" -> 1
      [] fn = "gatherRepositoryContext" -> 2
      [] fn = "extractLogPatterns" -> 3
      [] fn = "findRelevantFiles" -> 4
      [] fn = "buildAnalysisPrompt" -> 5
      [] fn = "generateCompletion" -> 6

\* the calls made are in the order of the steps and none is skipped before
\* the prompt but the ones a failure of gathering leaves out
CallsInOrder ==
    /\ \A j \in 1..Len(ragCalls) : \A k \in 1..Len(ragCalls) :
          j < k => StepRank(ragCalls[j].fn) < StepRank(ragCalls[k].fn)
    /\ ragCalls # <<>> => ragCalls[1].fn = "checkOllamaAvailability"
    /\ Called("buildAnalysisPrompt") => Called("gatherRepositoryContext")
    /\ Called("generateCompletion") => Called("buildAnalysisPrompt")

\* the completion is requested only after the check reported the model
\* available
CompletionOnlyWhenAvailable ==
    /\ Called("generateCompletion") => Made("checkOllamaAvailability", "available")
    /\ Made("checkOllamaAvailability", "unavailable") => Len(ragCalls) = 1

\* gathering the repository context or finding the relevant files failed
GatheringFailed ==
    \/ Made("gatherRepositoryContext", "threw")
    \/ Made("extractLogPatterns", "threw")
    \/ Made("findRelevantFiles", "threw")

\* after a failure of gathering the prompt is built with no relevant files
\* and the completion is requested
FailureTolerated ==
    GatheringFailed =>
        /\ Called("buildAnalysisPrompt")
        /\ ragLocal.relevantFiles = <<>>
        /\ Made("buildAnalysisPrompt", "returned")
        /\ ragResult.prompt # Null /\ ragResult.prompt.relevantFiles = <<>>
        /\ Called("generateCompletion")

\* C28: the steps of a run occur in the order availability check, gathering
\* of the repository context, prompt building, completion; the completion is
\* requested only after the check reported the model available; a failure
\* while gathering the context or finding relevant files does not abort the
\* run: the prompt is built with no relevant files and the completion is
\* requested
C28_StepsInOrderFailureTolerated ==
    /\ CallsInOrder
    /\ CompletionOnlyWhenAvailable
    /\ FailureTolerated

\* the order of the steps and the guard of the completion alone
RagOrderAndGuard == CallsInOrder /\ CompletionOnlyWhenAvailable

\* after a failure of gathering the prompt is attempted with no relevant
\* files, and the completion is requested when the prompt was built
RagFailureReachesPrompt ==
    GatheringFailed =>
        /\ Called("buildAnalysisPrompt")
        /\ ragLocal.relevantFiles = <<>>
        /\ Made("buildAnalysisPrompt", "returned") =>
              /\ ragResult.prompt.relevantFiles = <<>>
              /\ Called("generateCompletion")

\* ---------------------------------------------------------------------------
\* loadCache, saveCache and gatherRepositoryContext, repoContextGatherer.js
\* (src/unnamed/part_000:67-252)
\* ---------------------------------------------------------------------------

\* one hour in milliseconds, line 73
CacheMaxAge == 3600000

\* the calls of one run
MaxGathers == 2

\* the directories asked for
ReposDirs == {"/repos/a", "/repos/b"}

\* the instants at which something happens
Instants == {0, 1, 3599999, 3600000, 3600001, 7200001}

\* the content of a cache file written by saveCache, as JSON.parse gives it
\* back (lines 89-92)
CacheData(reposDir, files, timestamp) ==
    [t |-> "json", reposDir |-> reposDir, files |-> files, timestamp |-> timestamp]

\* lines 67-85 without the check of the age
loadCacheIgnoresAge(file, time) ==
    IF file = Undef \/ file = Thrown \/ file = Null THEN Null
    ELSE file

\* loadCache, lines 67-85: file is Undef without a cache file, Thrown when
\* JSON.parse throws, else the value parsed; reading data.timestamp of null
\* throws and is caught, a missing timestamp gives NaN, which is not < 3600000
loadCache(file, time) ==
    IF file = Undef THEN Null
    ELSE IF file = Thrown THEN Null
    ELSE IF file = Null THEN Null
    ELSE IF file.timestamp.t = "num" /\ time - file.timestamp.n < CacheMaxAge THEN file
    ELSE Null

\* saveCache, lines 87-93: the content of the file after the write
saveCache(context, time) == CacheData(context.reposDir, context.files, Num(time))

\* lines 218-243: the context a scan of the repositories gives
ScanContext(reposDir) == [reposDir |-> Str(reposDir), files |-> disk]

InitGather ==
    /\ cacheFile \in { Undef, Thrown, Null,
                       CacheData(Str("/repos/a"), 0, Undef),
                       CacheData(Str("/repos/a"), 0, Num(0)),
                       CacheData(Str("/repos/b"), 0, Num(1)) }
    /\ disk = 1
    /\ now \in {1, 3599999, 3600000}
    /\ gcall = Undef
    /\ gops = <<>>
    /\ gout = Undef
    /\ gcount = 0
    /\ CompareIdle
    /\ FilterIdle
    /\ ScoreIdle
    /\ SessionIdle
    /\ FrameIdle
    /\ ErrorsIdle
    /\ ScanIdle
    /\ ValuesIdle
    /\ RagIdle
    /\ StreamIdle
    /\ pc = "ready"

\* time passes
GatherTick ==
    /\ \E t \in Instants : t > now /\ now' = t
    /\ UNCHANGED <<cacheFile, disk, gcall, gops, gout, gcount, pc, streamVars>>
    /\ UNCHANGED <<cmpVars, filterVars, scoreVars, sessionVars, frameVars, errorVars, scanVars, valueVars, ragVars, streamVars>>

\* the repositories change on disk
DiskChanges ==
    /\ disk = 1
    /\ disk' = 2
    /\ UNCHANGED <<cacheFile, now, gcall, gops, gout, gcount, pc, streamVars>>
    /\ UNCHANGED <<cmpVars, filterVars, scoreVars, sessionVars, frameVars, errorVars, scanVars, valueVars, ragVars, streamVars>>

\* lines 195-211: the call up to the return of the cached context or the
\* start of the scan
GatherCall ==
    /\ pc = "ready"
    /\ gcount < MaxGathers
    /\ \E reposDir \in ReposDirs : \E useCache \in BOOLEAN :
          LET cached == IF useCache THEN loadCache(cacheFile, now) ELSE Null
              hit == useCache /\ cached # Null /\ cached.reposDir = Str(reposDir)
          IN  /\ gcall' = [reposDir |-> reposDir, useCache |-> useCache,
                           file |-> cacheFile, at |-> now,
                           returnedAt |-> IF hit THEN now ELSE -1]
              /\ gops' = IF useCache THEN <<"read">> ELSE <<>>
              /\ gout' = IF hit THEN cached ELSE Undef
              /\ pc' = IF hit THEN "ready" ELSE "scanning"
    /\ gcount' = gcount + 1
    /\ UNCHANGED <<cacheFile, disk, now, streamVars>>
    /\ UNCHANGED <<cmpVars, filterVars, scoreVars, sessionVars, frameVars, errorVars, scanVars, valueVars, ragVars, streamVars>>

\* lines 213-251: the scan ends, the context is saved when caching is
\* enabled, and returned
GatherScanned ==
    /\ pc = "scanning"
    /\ LET context == ScanContext(gcall.reposDir)
       IN  /\ gout' = context
           /\ IF gcall.useCache
              THEN /\ cacheFile' = saveCache(context, now)
                   /\ gops' = gops \o <<"scan", "write">>
              ELSE /\ UNCHANGED cacheFile
                   /\ gops' = Append(gops, "scan")
    /\ gcall' = [gcall EXCEPT !.returnedAt = now]
    /\ pc' = "ready"
    /\ UNCHANGED <<disk, now, gcount, streamVars>>
    /\ UNCHANGED <<cmpVars, filterVars, scoreVars, sessionVars, frameVars, errorVars, scanVars, valueVars, ragVars, streamVars>>

NextGather == GatherTick \/ DiskChanges \/ GatherCall \/ GatherScanned

SpecGather == InitGather /\ [][NextGather]_vars

\* the call did op
Did(op) == \E j \in 1..Len(gops) : gops[j] = op

\* the cache file the call found can be used for its directory: it parses to
\* an object whose timestamp is less than an hour before the call and whose
\* reposDir is the one asked for
Usable ==
    /\ gcall.file \notin {Undef, Thrown, Null}
    /\ gcall.file.timestamp # Undef
    /\ gcall.at - gcall.file.timestamp.n < 3600000
    /\ gcall.file.reposDir = Str(gcall.reposDir)

\* C29: the cached scan is returned without a scan only when caching is
\* enabled and the cache file parses, is less than an hour old and is of the
\* directory asked for; in every other case the repositories are scanned
\* and, with caching enabled, the cache is overwritten with the new scan and
\* a fresh timestamp; with useCache false the cache is neither read nor
\* written
C29_CacheUsedOnlyWhenFresh ==
    pc = "ready" /\ gcall # Undef =>
        /\ ~Did("scan") <=> (gcall.useCache /\ Usable)
        /\ ~Did("scan") => gout = gcall.file /\ cacheFile = gcall.file
        /\ Did("scan") =>
              /\ gout.reposDir = Str(gcall.reposDir)
              /\ gcall.useCache =>
                    /\ Did("write")
                    /\ cacheFile = CacheData(gout.reposDir, gout.files, Num(gcall.returnedAt))
        /\ ~gcall.useCache => gops = <<"scan">> /\ cacheFile = gcall.file

\* the second call returned the scan the first one cached 3599999 ms
\* before, although the repositories have changed since
C29_Witness ==
    /\ pc = "ready"
    /\ gcount = 2
    /\ gops = <<"read">>
    /\ gcall.at - gcall.file.timestamp.n = 3599999
    /\ gcall.file.timestamp = Num(1)
    /\ gout.files = 1
    /\ disk = 2

\* a call that found a cache exactly one hour old scanned and overwrote it
C29_WitnessExpired ==
    /\ pc = "ready"
    /\ gcall # Undef
    /\ gcall.useCache
    /\ gcall.file \notin {Undef, Thrown, Null}
    /\ gcall.file.reposDir = Str(gcall.reposDir)
    /\ gcall.file.timestamp = Num(0)
    /\ gcall.at = 3600000
    /\ gops = <<"read", "scan", "write">>
    /\ cacheFile.timestamp = Num(gcall.returnedAt)

\* ---------------------------------------------------------------------------
\* the submit handler of the web client, src/unnamed/part_003:21-96
\* ---------------------------------------------------------------------------

\* the lines of one stream
MaxEvents == 3

\* an event of the stream, as JSON.parse gives it
Event(stage, message, data) == [stage |-> stage, message |-> message, data |-> data]

\* the data lines the server can send: events, and a line that does not parse
StreamLines ==
    { Event("rag", "AI Analysis in progress", Null),
      Event("complete", "Analysis complete", Str("report")),
      Event("complete", "Analysis complete", Null),
      Event("error", "Ollama is not running", Null),
      Event("error", "CSV file is empty", Null),
      Thrown }

\* renderError(message), lines 153-164
ErrorView(message) == [kind |-> "error", message |-> message]

\* renderResults(data), lines 166-219
ResultsView(data) == [kind |-> "results", data |-> data]

InitStream ==
    /\ stream \in SeqsUpTo(StreamLines, MaxEvents)
    /\ received = <<>>
    /\ finalResult = Null
    /\ view = [kind |-> "form"]
    /\ CompareIdle
    /\ FilterIdle
    /\ ScoreIdle
    /\ SessionIdle
    /\ FrameIdle
    /\ ErrorsIdle
    /\ ScanIdle
    /\ ValuesIdle
    /\ RagIdle
    /\ GatherIdle
    /\ pc = "submit"

\* lines 21-51: the form is submitted, the loading view shown and the
\* request sent; the response arrives
Submit ==
    /\ pc = "submit"
    /\ view' = [kind |-> "loading"]
    /\ pc' = "reading"
    /\ UNCHANGED <<stream, received, finalResult>>
    /\ UNCHANGED <<cmpVars, filterVars, scoreVars, sessionVars, frameVars, errorVars, scanVars, valueVars, ragVars, gatherVars>>

\* lines 48-51, 90-94: fetch rejects and the outer catch renders the error
FetchFails ==
    /\ pc = "submit"
    /\ view' = ErrorView("Failed to fetch")
    /\ pc' = "done"
    /\ UNCHANGED <<stream, received, finalResult>>
    /\ UNCHANGED <<cmpVars, filterVars, scoreVars, sessionVars, frameVars, errorVars, scanVars, valueVars, ragVars, gatherVars>>

\* lines 64-80: one data line. JSON.parse may throw; the Error thrown at line
\* 72 for an event of stage error is thrown inside the try of line 65 and is
\* caught by the catch of line 74, which logs it: the loop goes on
ReadLine ==
    /\ pc = "reading"
    /\ stream # <<>>
    /\ LET event == Head(stream)
       IN  IF event = Thrown
           THEN UNCHANGED <<received, finalResult>>
           ELSE /\ received' = Append(received, event)
                /\ finalResult' = IF event.stage = "complete" /\ event.data # Null
                                  THEN event.data ELSE finalResult
    /\ stream' = Tail(stream)
    /\ UNCHANGED <<view, pc>>
    /\ UNCHANGED <<cmpVars, filterVars, scoreVars, sessionVars, frameVars, errorVars, scanVars, valueVars, ragVars, gatherVars>>

\* lines 54-55, 82-89: the stream is done; the results or 'No results
\* received from server' are rendered
StreamDone ==
    /\ pc = "reading"
    /\ stream = <<>>
    /\ view' = IF finalResult # Null THEN ResultsView(finalResult)
               ELSE ErrorView("No results received from server")
    /\ pc' = "done"
    /\ UNCHANGED <<stream, received, finalResult>>
    /\ UNCHANGED <<cmpVars, filterVars, scoreVars, sessionVars, frameVars, errorVars, scanVars, valueVars, ragVars, gatherVars>>

NextStream == Submit \/ FetchFails \/ ReadLine \/ StreamDone

SpecStream == InitStream /\ [][NextStream]_vars

\* the positions of the error events among the events handled
ErrorEvents == {j \in 1..Len(received) : received[j].stage = "error"}

\* C30: when an event of stage error is received the processing of the
\* stream stops and the error view is rendered with the message of that
\* event; the results view is rendered only if a complete event with data
\* was received and no error event was
C30_ErrorEventStopsStream ==
    /\ \A j \in ErrorEvents :
          /\ j = Len(received)
          /\ pc = "done"
          /\ view = ErrorView(received[j].message)
    /\ view.kind = "results" =>
          /\ \E j \in 1..Len(received) :
                received[j].stage = "complete" /\ received[j].data # Null
          /\ ErrorEvents = {}

\* the results view is rendered only if a complete event with data was
\* received
StreamResultsNeedComplete ==
    view.kind = "results" =>
        \E j \in 1..Len(received) :
            received[j].stage = "complete" /\ received[j].data = view.data

====
